---- MODULE Spec2Model ----
(***************************************************************************)
(* Model of the CQRS dispatch core of ai-enterprise-studio:                *)
(*   libs/buildingblocks/cqrs/mediator.py        (EnterpriseMediator)      *)
(*   libs/buildingblocks/behaviors/pipeline_behaviors.py                   *)
(*   libs/buildingblocks/exceptions/pipeline_exceptions.py                 *)
(*   libs/buildingblocks/messaging/outbox_cqrs.py (save handlers)          *)
(*                                                                         *)
(* A dispatch runs inline in the caller's asyncio task.  The only real     *)
(* suspension point of a dispatch is inside the business handler, so one   *)
(* send_* call is two atomic steps: the descent through the behaviors up   *)
(* to the handler (the Send actions), then the handler's completion and    *)
(* the unwinding of the behaviors (HandlerReturns, HandlerRaises,          *)
(* CancelDispatch).                                                        *)
(*                                                                         *)
(* The second part models the transactional outbox:                        *)
(*   libs/models/messaging/event_outbox.py        (EventOutbox)            *)
(*   libs/buildingblocks/messaging/outbox_cqrs.py (store handlers)         *)
(*   libs/buildingblocks/messaging/outbox_publisher.py                     *)
(*   apps/auth-server/database.py                 (SessionLocal)           *)
(* The publisher runs as asyncio tasks beside the foreground callers; a    *)
(* task gives way at the bus call of a row and in the sleep between two    *)
(* cycles, so a cycle is one step per row.                                 *)
(*                                                                         *)
(* The third part models a single behaviour instance whose handle() is     *)
(* called directly by concurrent asyncio tasks:                            *)
(*   libs/buildingblocks/behaviors/pipeline_behaviors.py                   *)
(*     (Authorization, Caching, RateLimiting, CircuitBreaker, and the      *)
(*      behaviours of the first part)                                      *)
(*   libs/buildingblocks/context.py               (RequestContext)         *)
(***************************************************************************)
EXTENDS Integers, Sequences, FiniteSets, TLC

\* ------------------------------------------------------------------ bounds
MaxBehaviors == 4
MaxEvents == 2
MaxRows == 2          \* rows ever inserted into event_outbox
MaxClock == 1         \* the clock runs from 0 to MaxClock
MaxBatch == 2         \* batch_size of the publisher is 1..MaxBatch
MaxLoops == 2         \* calls of start() in flight
MaxRetryCount == 2    \* MarkEventAsFailedCommand is sent while retry_count is below
MaxTasks == 2         \* calls of one behaviour's handle() in flight
MaxCalls == 3         \* invocations of next_handler() by direct calls
MaxTime == 3          \* time.time() runs for MaxTime half minutes
MaxLimit == 2         \* requests_per_minute and failure_threshold are 1..MaxLimit
MaxRegistrations == 2 \* register_* calls made while requests are dispatched

\* ------------------------------------------------------- request universe
CommandTypes == {"Cmd", "SaveEventToOutboxCommand", "SaveEventsToOutboxCommand"}
CommandWithResponseTypes == {"CmdR"}
QueryTypes == {"Qry"}
UserTypes == {"Cmd", "CmdR", "Qry"}
CorrIds == {"none", "c1"}
NoValue == "None"
Response == "resp"

\* isinstance(request, ICommand | ICommandWithResponse)
IsCommandLike(rtype) == rtype \in CommandTypes \cup CommandWithResponseTypes

\* Behaviour instances that can be added to the pipeline.
BehaviorInstances ==
    { [kind |-> "Validation", auto_commit |-> FALSE, mediator |-> FALSE],
      [kind |-> "Logging", auto_commit |-> FALSE, mediator |-> FALSE],
      [kind |-> "Transaction", auto_commit |-> TRUE, mediator |-> FALSE],
      [kind |-> "Transaction", auto_commit |-> FALSE, mediator |-> FALSE],
      [kind |-> "Outbox", auto_commit |-> FALSE, mediator |-> FALSE],
      [kind |-> "Outbox", auto_commit |-> FALSE, mediator |-> TRUE] }

VARIABLES
    command_handlers,                 \* EnterpriseMediator._command_handlers: type -> handler
    command_with_response_handlers,   \* EnterpriseMediator._command_with_response_handlers
    query_handlers,                   \* EnterpriseMediator._query_handlers
    pipeline_behaviors,               \* EnterpriseMediator._pipeline_behaviors
    call,                             \* the dispatch in flight (suspended in its handler)
    uow,                              \* the unit of work (db_session) of the request
    trace,                            \* observed order of behaviour/handler steps
    outcome,                          \* what the last send_* returned or raised
    outbox,                           \* the committed rows of table event_outbox, by id
    issued,                           \* number of primary keys handed out
    now,                              \* datetime.utcnow()
    reply,                            \* what the last outbox command or query gave its caller
    publisher,                        \* OutboxEventPublisher.running and .batch_size
    loops,                            \* the calls of OutboxEventPublisher.start()
    bus,                              \* ids of the rows whose event the message bus accepted
    time,                             \* time.time(), in seconds
    request_counts,                   \* RateLimitingBehavior._request_counts
    failure_counts,                   \* CircuitBreakerBehavior._failure_counts
    last_failure_times,               \* CircuitBreakerBehavior._last_failure_times
    cache,                            \* CachingBehavior._cache
    tasks,                            \* the direct calls of handle() in flight
    call_count,                       \* the invocations of next_handler() so far
    admitted,                         \* key and arrival time of the calls the rate limiter let through
    last,                             \* what the last step of a direct call did
    tripped,                          \* per key, when its failure count last stood at the threshold
    streak,                           \* per key, the failed calls since the last successful one
    cached_for,                       \* per cache key, the type of the request whose response is stored
    dispatches,                       \* the send_* calls that run concurrently on the mediator
    attached                          \* a request, a context and what with_context made of them

vars == <<command_handlers, command_with_response_handlers, query_handlers,
          pipeline_behaviors, call, uow, trace, outcome,
          outbox, issued, now, reply, publisher, loops, bus,
          time, request_counts, failure_counts, last_failure_times, cache,
          tasks, call_count, admitted, last, tripped, streak,
          cached_for, dispatches, attached>>

\* The state of the behaviours that are called directly; no action of the
\* mediator, the outbox store or the publisher touches it.
behavior_vars == <<time, request_counts, failure_counts, last_failure_times, cache,
                   tasks, call_count, admitted, last, tripped, streak,
                   cached_for, dispatches, attached>>

mediator_vars == <<command_handlers, command_with_response_handlers, query_handlers,
                   pipeline_behaviors, call, uow, trace, outcome, behavior_vars>>

outbox_vars == <<outbox, issued, now, reply, publisher, loops, bus, behavior_vars>>

\* ------------------------------------------------------------- exceptions
\* An exception is its cause chain: <<raised, its __cause__, ..., root>>.
Exc(kind, request_type, behavior_type, operation) ==
    [kind |-> kind, request_type |-> request_type,
     behavior_type |-> behavior_type, operation |-> operation]

HandlerNotFoundException(rtype) ==
    <<Exc("HandlerNotFoundException", rtype, "", "")>>

PipelineExecutionException(rtype, behavior_type, inner) ==
    <<Exc("PipelineExecutionException", rtype, behavior_type, "")>> \o inner

ValidationPipelineException(rtype, inner) ==
    <<Exc("ValidationPipelineException", rtype, "ValidationBehavior", "")>> \o inner

TransactionPipelineException(rtype, operation, inner) ==
    <<Exc("TransactionPipelineException", rtype, "TransactionBehavior", operation)>> \o inner

\* Exceptions raised by collaborators and business code.
PydanticValidationError == <<Exc("ValidationError", "", "", "")>>
ValueError == <<Exc("ValueError", "", "", "")>>
CommitError == <<Exc("CommitError", "", "", "")>>
SerializationError == <<Exc("TypeError", "", "", "")>>

\* class hierarchy of pipeline_exceptions.py
PipelineExecutionSubclasses ==
    {"PipelineExecutionException", "ValidationPipelineException",
     "AuthorizationPipelineException", "TransactionPipelineException",
     "RateLimitExceededException", "CircuitBreakerOpenException"}

IsHandlerNotFound(e) == e[1].kind = "HandlerNotFoundException"
IsPipelineExecution(e) == e[1].kind \in PipelineExecutionSubclasses

\* How control leaves a callable: a value, an Exception, or asyncio
\* cancellation (CancelledError, a BaseException that "except Exception"
\* does not catch).
Ret(v) == [t |-> "ret", val |-> v, exc |-> <<>>]
Raise(e) == [t |-> "exc", val |-> NoValue, exc |-> e]
Cancelled == [t |-> "cancel", val |-> NoValue, exc |-> <<>>]
Calling == [t |-> "call", val |-> NoValue, exc |-> <<>>]
NoOutcome == [t |-> "none", val |-> NoValue, exc |-> <<>>]

\* ----------------------------------------------------------- unit of work
\* db_session as used by TransactionBehavior and the save handlers:
\* in_transaction / begin / commit / rollback / add.
\* Each send_* is given a session of its own; add() queues a row without
\* beginning a transaction, commit() flushes the queued rows, rollback()
\* drops them.
NewSession(in_tx) ==
    [in_tx |-> in_tx, pending |-> <<>>, committed |-> <<>>,
     begins |-> 0, commits |-> 0, rollbacks |-> 0]

\* The frame of one dispatch while it executes: the session, the steps
\* observed so far, the signal travelling along the chain, and the chain
\* position the descent has reached.
NewFrame(in_tx) ==
    [uow |-> NewSession(in_tx), trace |-> <<>>, sig |-> Calling, at |-> 0]

Signal(s, sig) == [s EXCEPT !.sig = sig]

\* One observed step: behaviour b (0: the terminal handler or the session)
\* of the dispatch at nesting depth did ev for a request of type rtype.
Ev(depth, b, ev, rtype) ==
    [depth |-> depth, b |-> b, ev |-> ev, rtype |-> rtype, val |-> NoValue, exc |-> <<>>]

AfterEv(depth, b, rtype, val) ==
    [depth |-> depth, b |-> b, ev |-> "after", rtype |-> rtype, val |-> val, exc |-> <<>>]

RaiseEv(depth, b, rtype, exc) ==
    [depth |-> depth, b |-> b, ev |-> "raise", rtype |-> rtype, val |-> NoValue, exc |-> exc]

Log(s, e) == [s EXCEPT !.trace = Append(@, e)]

Begin(s, depth, b, rtype) ==
    Log([s EXCEPT !.uow.in_tx = TRUE, !.uow.begins = @ + 1],
        Ev(depth, b, "begin", rtype))

Commit(s, depth, b, rtype) ==
    Log([s EXCEPT !.uow.committed = @ \o s.uow.pending,
                  !.uow.pending = <<>>,
                  !.uow.in_tx = FALSE,
                  !.uow.commits = @ + 1],
        Ev(depth, b, "commit", rtype))

Rollback(s, depth, b, rtype) ==
    Log([s EXCEPT !.uow.pending = <<>>,
                  !.uow.in_tx = FALSE,
                  !.uow.rollbacks = @ + 1],
        Ev(depth, b, "rollback", rtype))

\* EventOutbox.from_event(event, correlation_id)
FromEvent(event, correlation_id) ==
    [event |-> event, correlation_id |-> correlation_id,
     published_at |-> "null", retry_count |-> 0]

Add(s, depth, row) ==
    Log([s EXCEPT !.uow.pending = Append(@, row)],
        Ev(depth, 0, "add", "EventOutbox"))

\* ---------------------------------------------------------------- requests
\* A request object with the capability fields the behaviours look for.
\* domain_events is the number of events the request carries when the
\* handler has returned; events is the payload of a save command.
Request(rtype, valid, requires_transaction, db_session, domain_events, correlation_id) ==
    [rtype |-> rtype, valid |-> valid,
     requires_transaction |-> requires_transaction, db_session |-> db_session,
     domain_events |-> domain_events, correlation_id |-> correlation_id,
     events |-> 0]

\* What the collaborators do during one unwinding: whether db_session.commit()
\* succeeds, and the index of the event whose serialisation or add raises
\* (0: none does).
Envs == [commit_ok : BOOLEAN, save_fails_at : 0..MaxEvents]
CalmEnv == [commit_ok |-> TRUE, save_fails_at |-> 0]

RECURSIVE Fold(_, _)
RECURSIVE FoldForward(_, _)
RECURSIVE Down(_, _, _, _)
RECURSIVE Up(_, _, _, _, _)
RECURSIVE AddEvents(_, _, _, _, _)
RECURSIVE SendCommandNested(_, _, _, _)

\* ----------------------------------------------------- pipeline composition
\* _execute_pipeline: for behavior in reversed(_pipeline_behaviors), wrap it
\* around the chain built so far.  The chain is the sequence of behaviour
\* indexes from outermost to innermost.
\* (variant: the behaviours are folded in registration order, without reversed())
FoldForward(k, chain) ==
    IF k = 0 THEN chain ELSE FoldForward(k - 1, chain \o <<k>>)

Fold(k, chain) ==
    IF k = 0 THEN chain ELSE Fold(k - 1, <<k>> \o chain)

Chain == Fold(Len(pipeline_behaviors), <<>>)

\* A raise statement executed by behaviour b (0: the terminal handler): the
\* frame r it produced carries an exception.
NoteRaise(depth, b, rtype, r) ==
    IF r.sig.t = "exc" THEN Log(r, RaiseEv(depth, b, rtype, r.sig.exc)) ELSE r

\* Behaviour b leaves with frame r after next_handler() gave sig: it returns
\* a value, raises an exception of its own, or lets sig propagate.
NoteExit(depth, b, rtype, sig, r) ==
    IF r.sig.t = "ret" THEN Log(r, AfterEv(depth, b, rtype, r.sig.val))
    ELSE IF r.sig.t = "exc" /\ r.sig # sig
         THEN Log(r, RaiseEv(depth, b, rtype, r.sig.exc))
         ELSE r

\* ------------------------------------------------------ request attributes
\* hasattr(request, name) is false
Missing == "missing"
Keys == {"a", "b"}

\* The attributes a request object may lack while its record has the field.
Optional ==
    {"user_context", "authorize", "rate_limit_key", "circuit_breaker_key", "cache_key"}

hasattr(request, name) ==
    /\ name \in DOMAIN request
    /\ name \in Optional => request[name] # Missing
getattr(request, name, default) ==
    IF hasattr(request, name) THEN request[name] ELSE default

AuthorizationPipelineException(rtype, user_id, required_permission) ==
    <<[kind |-> "AuthorizationPipelineException", request_type |-> rtype,
       behavior_type |-> "AuthorizationBehavior", operation |-> "",
       user_id |-> user_id, required_permission |-> required_permission]>>

\* --------------------------------------------------- AuthorizationBehavior
\* (variant: the result of request.authorize() is not looked at)
AuthorizationHandleUnchecked(b, request) ==
    IF b.require_authentication /\ getattr(request, "user_context", NoValue) = NoValue
    THEN Raise(AuthorizationPipelineException(request.rtype, NoValue, NoValue))
    ELSE Calling

\* "await request.authorize(user_context)" touches nothing the behaviour
\* keeps; its result is an attribute of the request here.
AuthorizationHandle(b, request) ==
    IF b.require_authentication /\ getattr(request, "user_context", NoValue) = NoValue
    THEN Raise(AuthorizationPipelineException(request.rtype, NoValue, NoValue))
    ELSE IF hasattr(request, "authorize") /\ request.authorize = "falsy"
         THEN Raise(AuthorizationPipelineException(request.rtype,
                        getattr(request, "user_context", NoValue),
                        "custom_authorization"))
         ELSE Calling

\* Behaviour i is an AuthorizationBehavior of the mediator's pipeline.
AuthorizationEnter(i, req, depth, s) ==
    Signal(s, AuthorizationHandle(pipeline_behaviors[i], req))

\* ------------------------------------------------------ ValidationBehavior
ValidationEnter(i, req, depth, s) ==
    IF req.valid THEN s
    ELSE Signal(s, Raise(ValidationPipelineException(req.rtype, PydanticValidationError)))

\* ----------------------------------------------------- TransactionBehavior
TransactionActs(req) == req.requires_transaction /\ req.db_session

\* (variant: a transaction is begun whether or not the request asks for one)
TransactionEnterAlways(i, req, depth, s) ==
    IF ~s.uow.in_tx
    THEN Begin(s, depth, i, req.rtype)
    ELSE s

TransactionEnter(i, req, depth, s) ==
    IF TransactionActs(req) /\ ~s.uow.in_tx
    THEN Begin(s, depth, i, req.rtype)
    ELSE s

\* (variant: the wrapper is raised without "from e")
TransactionPipelineExceptionNoCause(rtype, operation, inner) ==
    <<Exc("TransactionPipelineException", rtype, "TransactionBehavior", operation)>>

\* raise TransactionPipelineException(type(request).__name__, "rollback", e) from e
TransactionError(rtype, operation, inner) ==
    TransactionPipelineException(rtype, operation, inner)

\* (variant: the except branch wraps and re-raises without rolling back)
TransactionExitNoRollback(i, req, depth, s, env) ==
    IF ~TransactionActs(req) THEN s
    ELSE CASE s.sig.t = "ret" ->
                IF ~pipeline_behaviors[i].auto_commit THEN s
                ELSE IF env.commit_ok
                     THEN Commit(s, depth, i, req.rtype)
                     ELSE Signal(Log(s, Ev(depth, i, "commit_failed", req.rtype)),
                                 Raise(TransactionError(req.rtype, "rollback", CommitError)))
           [] s.sig.t = "exc" ->
                Signal(s, Raise(TransactionError(req.rtype, "rollback", s.sig.exc)))
           [] OTHER -> s

TransactionExit(i, req, depth, s, env) ==
    IF ~TransactionActs(req) THEN s
    ELSE CASE s.sig.t = "ret" ->
                IF ~pipeline_behaviors[i].auto_commit THEN s
                ELSE IF env.commit_ok
                     THEN Commit(s, depth, i, req.rtype)
                     ELSE Signal(Rollback(Log(s, Ev(depth, i, "commit_failed", req.rtype)),
                                          depth, i, req.rtype),
                                 Raise(TransactionError(req.rtype, "rollback", CommitError)))
           [] s.sig.t = "exc" ->
                Signal(Rollback(s, depth, i, req.rtype),
                       Raise(TransactionError(req.rtype, "rollback", s.sig.exc)))
           [] OTHER -> s

\* ------------------------------------------------------------ save handlers
AddEvents(k, cmd, depth, s, env) ==
    IF k > cmd.events THEN Signal(s, Ret(NoValue))
    ELSE IF env.save_fails_at = k
         THEN Signal(Log(s, Ev(depth, 0, "save_failed", cmd.rtype)),
                     Raise(SerializationError))
         ELSE AddEvents(k + 1, cmd, depth,
                        Add(s, depth, FromEvent(k, cmd.correlation_id)), env)

\* (variant: the row is built but never added to the session)
SaveEventToOutboxHandlerNoAdd(cmd, depth, s, env) ==
    IF ~cmd.db_session THEN Signal(s, Raise(ValueError))
    ELSE Signal(s, Ret(NoValue))

SaveEventToOutboxHandler(cmd, depth, s, env) ==
    IF ~cmd.db_session THEN Signal(s, Raise(ValueError))
    ELSE IF env.save_fails_at = 1
         THEN Signal(Log(s, Ev(depth, 0, "save_failed", cmd.rtype)),
                     Raise(SerializationError))
         ELSE Signal(Add(s, depth, FromEvent(1, cmd.correlation_id)), Ret(NoValue))

SaveEventsToOutboxHandler(cmd, depth, s, env) ==
    IF ~cmd.db_session THEN Signal(s, Raise(ValueError))
    ELSE AddEvents(1, cmd, depth, s, env)

\* ---------------------------------------------------------- OutboxBehavior
SaveEventToOutboxCommand(req) ==
    [Request("SaveEventToOutboxCommand", TRUE, FALSE, req.db_session, 0,
             req.correlation_id) EXCEPT !.events = 1]

SaveEventsToOutboxCommand(req) ==
    [Request("SaveEventsToOutboxCommand", TRUE, FALSE, req.db_session, 0,
             req.correlation_id) EXCEPT !.events = req.domain_events]

\* (variant: the events are persisted whether or not next_handler() succeeded)
HasEventsToPersistEagerly(i, req, s) ==
    /\ IsCommandLike(req.rtype)
    /\ req.domain_events > 0
    /\ req.db_session
    /\ pipeline_behaviors[i].mediator

\* result = await next_handler() has returned, and the request is a command
\* with domain events, a session, and a mediator to dispatch the save through
HasEventsToPersist(i, req, s) ==
    /\ s.sig.t = "ret"
    /\ IsCommandLike(req.rtype)
    /\ req.domain_events > 0
    /\ req.db_session
    /\ pipeline_behaviors[i].mediator

\* (variant: a failure of the nested save dispatch propagates to the caller)
PropagateSaveFailure(s, saved) ==
    IF saved.sig.t = "exc" THEN [saved EXCEPT !.at = s.at]
    ELSE [saved EXCEPT !.sig = s.sig, !.at = s.at]

\* try: await self._mediator.send_command(..) except Exception: log; then
\* return result
SwallowSaveFailure(s, saved) == [saved EXCEPT !.sig = s.sig, !.at = s.at]

OutboxExit(i, req, depth, s, env) ==
    IF ~HasEventsToPersist(i, req, s) THEN s
    ELSE SwallowSaveFailure(s,
             SendCommandNested(IF req.domain_events = 1
                               THEN SaveEventToOutboxCommand(req)
                               ELSE SaveEventsToOutboxCommand(req),
                               depth + 1, s, env))

\* ------------------------------------------------------------ chain walking
\* The part of behaviour i that runs before it awaits next_handler().
BehaviorEnter(i, req, depth, s) ==
    NoteRaise(depth, i, req.rtype,
        CASE pipeline_behaviors[i].kind = "Validation" ->
                ValidationEnter(i, req, depth, Log(s, Ev(depth, i, "before", req.rtype)))
          [] pipeline_behaviors[i].kind = "Transaction" ->
                TransactionEnter(i, req, depth, Log(s, Ev(depth, i, "before", req.rtype)))
          [] pipeline_behaviors[i].kind = "Authorization" ->
                AuthorizationEnter(i, req, depth, Log(s, Ev(depth, i, "before", req.rtype)))
          [] OTHER -> Log(s, Ev(depth, i, "before", req.rtype)))

\* The part of behaviour i that runs once next_handler() has returned or raised.
BehaviorExit(i, req, depth, s, env) ==
    NoteExit(depth, i, req.rtype, s.sig,
        CASE pipeline_behaviors[i].kind = "Transaction" ->
                TransactionExit(i, req, depth, s, env)
          [] pipeline_behaviors[i].kind = "Outbox" ->
                OutboxExit(i, req, depth, s, env)
          [] OTHER -> s)

\* Enter the behaviours at chain positions p.. until one raises or the
\* terminal handler is reached; at is the position that stopped the descent.
Down(p, req, depth, s) ==
    IF s.sig.t # "call" THEN s
    ELSE IF p > Len(Chain) THEN [s EXCEPT !.at = p]
    ELSE Down(p + 1, req, depth,
              BehaviorEnter(Chain[p], req, depth, [s EXCEPT !.at = p]))

\* Unwind the behaviours at chain positions p, p-1, .., 1.
Up(p, req, depth, s, env) ==
    IF p = 0 THEN s
    ELSE Up(p - 1, req, depth, BehaviorExit(Chain[p], req, depth, s, env), env)

\* ------------------------------------------------------------------ mediator
\* (variant: every entry point labels its wrapper as send_command does)
PhaseCopied(api) == "CommandExecution"

Phase(api) ==
    CASE api = "send_command" -> "CommandExecution"
      [] api = "send_command_with_response" -> "CommandWithResponseExecution"
      [] api = "send_query" -> "QueryExecution"

Registry(api) ==
    CASE api = "send_command" -> command_handlers
      [] api = "send_command_with_response" -> command_with_response_handlers
      [] api = "send_query" -> query_handlers

\* (variant: only send_command checks its registry before dispatching)
NotRegisteredCommandOnly(api, rtype) ==
    api = "send_command" /\ rtype \notin DOMAIN Registry(api)

\* type(request) not in the registry of the entry point
NotRegistered(api, rtype) == rtype \notin DOMAIN Registry(api)

\* The try/except around _execute_pipeline in send_*.
Wrap(api, rtype, sig) ==
    CASE sig.t = "exc" ->
            IF ~IsHandlerNotFound(sig.exc)
            THEN Raise(PipelineExecutionException(rtype, Phase(api), sig.exc))
            ELSE sig
      [] sig.t = "ret" ->
            IF api = "send_command" THEN Ret(NoValue) ELSE sig
      [] OTHER -> sig

Wrapped(api, rtype, s) == Signal(s, Wrap(api, rtype, s.sig))

\* Invocation of the terminal handler of a save command.
HandleSave(cmd, depth, s, env) ==
    NoteRaise(depth, 0, cmd.rtype,
        IF cmd.rtype = "SaveEventToOutboxCommand"
        THEN SaveEventToOutboxHandler(cmd, depth,
                                      Log(s, Ev(depth, 0, "handle", cmd.rtype)), env)
        ELSE SaveEventsToOutboxHandler(cmd, depth,
                                       Log(s, Ev(depth, 0, "handle", cmd.rtype)), env))

\* The rest of a nested dispatch whose descent ended with frame d: the
\* handler runs if the descent reached it, then the entered behaviours unwind.
FinishNested(cmd, depth, d, env) ==
    Wrapped("send_command", cmd.rtype,
            Up(d.at - 1, cmd, depth,
               IF d.sig.t = "call" THEN HandleSave(cmd, depth, d, env) ELSE d,
               env))

\* send_command as awaited by OutboxBehavior: the save handlers never
\* suspend, so the nested dispatch runs to completion.
SendCommandNested(cmd, depth, s, env) ==
    IF NotRegistered("send_command", cmd.rtype)
    THEN Signal(s, Raise(HandlerNotFoundException(cmd.rtype)))
    ELSE FinishNested(cmd, depth, Down(1, cmd, depth, Signal(s, Calling)), env)

\* The descent of an outer dispatch ended with frame d: the dispatch is
\* suspended in its handler, or a behaviour raised and the entered
\* behaviours unwind.
Started(api, req, d) ==
    IF d.sig.t = "call" THEN Log(d, Ev(0, 0, "handle", req.rtype))
    ELSE Wrapped(api, req.rtype, Up(d.at - 1, req, 0, d, CalmEnv))

\* send_* up to the point where the terminal handler is awaited.
Dispatch(api, req, s) ==
    IF NotRegistered(api, req.rtype)
    THEN Signal(s, Raise(HandlerNotFoundException(req.rtype)))
    ELSE Started(api, req, Down(1, req, 0, s))


\* ============================================================ outbox store
\* The event_outbox table, the units of work that read and write it, and
\* the handlers of outbox_cqrs.py.  The mediator that dispatches the outbox
\* commands has their handlers registered; no behaviour of the pipeline acts
\* on them (they carry neither requires_transaction nor domain_events).

\* event classes by what the publisher can do with them: registered and
\* accepted by the bus, not in event_registry, registered but the bus may raise
EventTypes == {"Registered", "Unregistered", "Flaky"}

\* OutboxEventPublisher.event_registry
event_registry == {"Registered", "Flaky"}

\* published_at is NULL, or holds one timestamp
NoTime == {}

\* INSERT of the record built by EventOutbox.from_event: the primary key and
\* created_at (server_default now()) are filled in.
Insert(row, id, event_type, t) ==
    [id |-> id, event_type |-> event_type, created_at |-> t,
     published_at |-> IF row.published_at = "null" THEN NoTime ELSE {t},
     retry_count |-> row.retry_count, error_message |-> "null",
     correlation_id |-> row.correlation_id]

\* A unit of work (Session): the rows it inserted or changed and the ids it
\* deleted, all invisible to others until commit().
NewWork == [rows |-> <<>>, deleted |-> {}]

\* What a unit of work w sees of table db.
View(db, w) ==
    [id \in (DOMAIN db \cup DOMAIN w.rows) \ w.deleted |->
        IF id \in DOMAIN w.rows THEN w.rows[id] ELSE db[id]]

Put(w, row) == [w EXCEPT !.rows = (row.id :> row) @@ @]

\* (variant: only the first of the records is added)
FlushFirst(w, pending, event_type, last_id, t) ==
    IF pending = <<>> THEN w
    ELSE Put(w, Insert(Head(pending), last_id + 1, event_type, t))

\* session.add of the records a save handler queued, in order
RECURSIVE Flush(_, _, _, _, _)
Flush(w, pending, event_type, last_id, t) ==
    IF pending = <<>> THEN w
    ELSE Flush(Put(w, Insert(Head(pending), last_id + 1, event_type, t)),
               Tail(pending), event_type, last_id + 1, t)

\* EventOutbox.mark_as_published
mark_as_published(row, t) == [row EXCEPT !.published_at = {t}]

\* EventOutbox.mark_as_failed
mark_as_failed(row, error_message) ==
    [row EXCEPT !.retry_count = @ + 1, !.error_message = error_message]

MarkEventAsPublishedHandler(db, w, event_id, t) ==
    IF event_id \in DOMAIN View(db, w)
    THEN Put(w, mark_as_published(View(db, w)[event_id], t))
    ELSE w

\* (variant: the failure is recorded without counting it)
MarkEventAsFailedHandlerNoCount(db, w, event_id, error_message) ==
    IF event_id \in DOMAIN View(db, w)
    THEN Put(w, [View(db, w)[event_id] EXCEPT !.error_message = error_message])
    ELSE w

MarkEventAsFailedHandler(db, w, event_id, error_message) ==
    IF event_id \in DOMAIN View(db, w)
    THEN Put(w, mark_as_failed(View(db, w)[event_id], error_message))
    ELSE w

\* filter(published_at IS NOT NULL, published_at < cutoff_date)
PublishedBefore(view, cutoff_date) ==
    {id \in DOMAIN view : \E t \in view[id].published_at : t < cutoff_date}

\* (variant: the filter on published_at IS NOT NULL is missing)
CleanupPublishedEventsHandlerAll(db, w, cutoff_date) ==
    [w EXCEPT !.deleted = @ \cup DOMAIN View(db, w),
              !.rows = <<>>]

CleanupPublishedEventsHandler(db, w, cutoff_date) ==
    [w EXCEPT !.deleted = @ \cup PublishedBefore(View(db, w), cutoff_date),
              !.rows = [id \in DOMAIN w.rows \ PublishedBefore(View(db, w), cutoff_date)
                            |-> w.rows[id]]]

\* filter(published_at IS NULL)
Unpublished(view) == {id \in DOMAIN view : view[id].published_at = NoTime}

\* order_by(created_at): every order of the ids S that ascends by created_at
\* (rows with equal created_at come in the order the database picks)
OrderBy(view, S) ==
    {q \in [1..Cardinality(S) -> S] :
        /\ \A i, j \in 1..Cardinality(S) : i < j =>
              /\ q[i] # q[j]
              /\ view[q[i]].created_at <= view[q[j]].created_at}

Limit(q, limit) == SubSeq(q, 1, IF Len(q) < limit THEN Len(q) ELSE limit)

\* (variant: the query has no filter on published_at)
GetUnpublishedEventsHandlerNoFilter(view, limit) ==
    {[i \in 1..Len(Limit(q, limit)) |-> view[q[i]]] : q \in OrderBy(view, DOMAIN view)}

\* The results the query can return: rows in one ascending order, cut at limit.
GetUnpublishedEventsHandler(view, limit) ==
    {[i \in 1..Len(Limit(q, limit)) |-> view[q[i]]] : q \in OrderBy(view, Unpublished(view))}


\* session.commit() makes the changes of unit of work w durable;
\* session.close() without it drops them.
Durable(db, w, commit) == IF commit THEN View(db, w) ELSE db

\* ------------------------------------------------- foreground store callers
\* What the last outbox command or query gave its caller: the value returned
\* (None is <<>>, a list of rows is the list) or the exception raised
\* (ValueError("Database session is required") without db_session), with the
\* unit of work as the handler left it and whether the caller committed it.
NoReply ==
    [op |-> "", arg |-> 0, correlation_id |-> "none", error |-> "", value |-> <<>>,
     work |-> NewWork, committed |-> FALSE]

Observe(op, arg, correlation_id, error, value, w, commit) ==
    [op |-> op, arg |-> arg, correlation_id |-> correlation_id, error |-> error,
     value |-> value, work |-> w, committed |-> commit]

\* ---------------------------------------------------- OutboxEventPublisher
\* One call of start(): not made yet or returned ("idle"), inside
\* _process_outbox_events with rows of the batch left ("cycle"), or in
\* asyncio.sleep(polling_interval) ("sleep").  batch is the list the query
\* returned (of each row the id and event_type, which is what the publisher
\* reads), done what was done for each row processed so far, session the
\* unit of work of the cycle.  stopped records that stop() was called while
\* the call was active.
IdleLoop ==
    [pc |-> "idle", batch |-> <<>>, done |-> <<>>, session |-> NewWork,
     stopped |-> FALSE]

Fetched(rows) ==
    [i \in 1..Len(rows) |-> [id |-> rows[i].id, event_type |-> rows[i].event_type]]

\* what _publish_single_event did for a row: the bus call ("none", "ok" or
\* "raised") and the mark commands it sent
Outcome(bus_call, marks) == [bus |-> bus_call, marks |-> marks]

Published == [cmd |-> "MarkEventAsPublishedCommand", error_message |-> "null"]

Failed(error_message) ==
    [cmd |-> "MarkEventAsFailedCommand", error_message |-> error_message]

\* _reconstruct_event: the event, or None for a type missing from event_registry
reconstruct_event(row) == row.event_type \in event_registry

\* (variant: a publish error is logged and the row is left unmarked)
PublishSingleEventNoMark(row, bus_ok) ==
    IF ~reconstruct_event(row)
    THEN Outcome("none", <<Failed("Unknown event type")>>)
    ELSE IF bus_ok THEN Outcome("ok", <<Published>>)
         ELSE Outcome("raised", <<>>)

\* _publish_single_event, given whether message_bus.publish_event returns
PublishSingleEvent(row, bus_ok) ==
    IF ~reconstruct_event(row)
    THEN Outcome("none", <<Failed("Unknown event type")>>)
    ELSE IF bus_ok THEN Outcome("ok", <<Published>>)
         ELSE Outcome("raised", <<Failed("bus error")>>)

\* _mark_as_published / _mark_as_failed: the commands of marks sent with the
\* session of the cycle
RECURSIVE Mark(_, _, _, _, _)
Mark(db, w, event_id, marks, t) ==
    IF marks = <<>> THEN w
    ELSE Mark(db,
              IF Head(marks).cmd = "MarkEventAsPublishedCommand"
              THEN MarkEventAsPublishedHandler(db, w, event_id, t)
              ELSE MarkEventAsFailedHandler(db, w, event_id, Head(marks).error_message),
              event_id, Tail(marks), t)

\* ------------------------------------------------------------------ actions
NoCall ==
    [active |-> FALSE, api |-> "", req |-> Request("", TRUE, FALSE, FALSE, 0, "none"),
     in_tx |-> FALSE, handler |-> NoOutcome]

Init ==
    /\ command_handlers = <<>>
    /\ command_with_response_handlers = <<>>
    /\ query_handlers = <<>>
    /\ pipeline_behaviors = <<>>
    /\ call = NoCall
    /\ uow = NewSession(FALSE)
    /\ trace = <<>>
    /\ outcome = NoOutcome
    /\ outbox = <<>>
    /\ issued = 0
    /\ now = 0
    /\ reply = NoReply
    /\ publisher = [running |-> FALSE, batch_size |-> 1]
    /\ loops = [l \in 1..MaxLoops |-> IdleLoop]
    /\ bus = {}
    /\ time = 0
    /\ request_counts = <<>>
    /\ failure_counts = <<>>
    /\ last_failure_times = <<>>
    /\ cache = <<>>
    /\ tasks = <<>>
    /\ call_count = 0
    /\ admitted = <<>>
    /\ last = <<>>
    /\ tripped = <<>>
    /\ streak = <<>>
    /\ cached_for = <<>>
    /\ dispatches = <<>>
    /\ attached = <<>>

\* Observations of the last dispatch are dropped when the mediator is
\* reconfigured.
Forget ==
    /\ call' = NoCall
    /\ uow' = NewSession(FALSE)
    /\ trace' = <<>>
    /\ outcome' = NoOutcome
    /\ UNCHANGED outbox_vars

Idle == ~call.active /\ outcome.t = "none"

\* The caller takes the outcome of the finished send_*.
Return ==
    /\ ~call.active
    /\ outcome.t # "none"
    /\ UNCHANGED <<command_handlers, command_with_response_handlers,
                   query_handlers, pipeline_behaviors>>
    /\ Forget

\* A handler instance: which object it is, and whether its handle is a
\* coroutine function.
Handler == [id |-> "h1", is_async |-> TRUE]

\* (variant: a type that has a handler keeps it)
SetDefault(registry, key, value) ==
    IF key \in DOMAIN registry THEN registry ELSE (key :> value) @@ registry

\* self._command_handlers[command_type] = handler
SetItem(registry, key, value) == (key :> value) @@ registry

\* Handlers are registered at start-up in one order: the query handler, the
\* command-with-response handler, the command handler, then the two outbox
\* save handlers.
RegistrationOrder ==
    <<"Qry", "CmdR", "Cmd", "SaveEventToOutboxCommand", "SaveEventsToOutboxCommand">>

Registered ==
    DOMAIN command_handlers \cup DOMAIN command_with_response_handlers
        \cup DOMAIN query_handlers

NextToRegister(t) ==
    /\ Cardinality(Registered) < Len(RegistrationOrder)
    /\ t = RegistrationOrder[Cardinality(Registered) + 1]

register_command_handler(t) ==
    /\ Idle
    /\ NextToRegister(t)
    /\ command_handlers' = SetItem(command_handlers, t, Handler)
    /\ UNCHANGED <<command_with_response_handlers, query_handlers, pipeline_behaviors>>
    /\ Forget

register_command_with_response_handler(t) ==
    /\ Idle
    /\ NextToRegister(t)
    /\ command_with_response_handlers' = SetItem(command_with_response_handlers, t, Handler)
    /\ UNCHANGED <<command_handlers, query_handlers, pipeline_behaviors>>
    /\ Forget

register_query_handler(t) ==
    /\ Idle
    /\ NextToRegister(t)
    /\ query_handlers' = SetItem(query_handlers, t, Handler)
    /\ UNCHANGED <<command_handlers, command_with_response_handlers, pipeline_behaviors>>
    /\ Forget

\* add_pipeline_behavior appends.  The pipelines explored hold at most one
\* behaviour of each kind and at most MaxBehaviors behaviours.
add_pipeline_behavior(b) ==
    /\ Idle
    /\ Len(pipeline_behaviors) < MaxBehaviors
    /\ \A i \in 1..Len(pipeline_behaviors) : pipeline_behaviors[i].kind # b.kind
    /\ pipeline_behaviors' = Append(pipeline_behaviors, b)
    /\ UNCHANGED <<command_handlers, command_with_response_handlers, query_handlers>>
    /\ Forget

\* OutboxBehavior.set_mediator on the behaviour registered at index i
set_mediator(i) ==
    /\ Idle
    /\ pipeline_behaviors[i].kind = "Outbox"
    /\ ~pipeline_behaviors[i].mediator
    /\ pipeline_behaviors' = [pipeline_behaviors EXCEPT ![i].mediator = TRUE]
    /\ UNCHANGED <<command_handlers, command_with_response_handlers, query_handlers>>
    /\ Forget

\* The requests that callers send.  Commands range over the capability
\* fields; a correlation id comes with events and a session, and an invalid
\* command carries no events.  The command-with-response and the query cover
\* the other two entry points.
Commands ==
    { r \in { Request("Cmd", v, rt, db, n, c) :
                v \in BOOLEAN, rt \in BOOLEAN, db \in BOOLEAN,
                n \in 0..MaxEvents, c \in CorrIds } :
        /\ (r.correlation_id # "none") => (r.domain_events > 0 /\ r.db_session)
        /\ ~r.valid => r.domain_events = 0 }

CommandsWithResponse ==
    { Request("CmdR", TRUE, tx, tx, n, IF tx /\ n > 0 THEN "c1" ELSE "none") :
        tx \in BOOLEAN, n \in {0, MaxEvents} }

Queries ==
    { Request("Qry", TRUE, FALSE, db, n, "none") : db \in BOOLEAN, n \in {0, 1} }

\* send_command / send_command_with_response / send_query up to the point
\* where the terminal handler is awaited, or to the end if the type is not
\* registered or a behaviour raises before the handler.
Send(api, req, in_tx) ==
    /\ Idle
    /\ (in_tx => TransactionActs(req))
    /\ UNCHANGED <<command_handlers, command_with_response_handlers,
                   query_handlers, pipeline_behaviors>>
    /\ UNCHANGED outbox_vars
    /\ \E r \in {Dispatch(api, req, NewFrame(in_tx))} :
          /\ call' = [active |-> r.sig.t = "call", api |-> api, req |-> req,
                      in_tx |-> in_tx,
                      handler |-> IF r.sig.t = "call" THEN Calling ELSE NoOutcome]
          /\ uow' = r.uow
          /\ trace' = r.trace
          /\ outcome' = IF r.sig.t = "call" THEN NoOutcome ELSE r.sig

send_command(req, in_tx) == Send("send_command", req, in_tx)
send_command_with_response(req, in_tx) == Send("send_command_with_response", req, in_tx)
send_query(req, in_tx) == Send("send_query", req, in_tx)

\* The awaited handler finishes with signal sig; the behaviours unwind and
\* send_* returns or raises.
Complete(sig, env) ==
    /\ call.active
    /\ UNCHANGED <<command_handlers, command_with_response_handlers,
                   query_handlers, pipeline_behaviors>>
    /\ UNCHANGED outbox_vars
    /\ \E u \in {Wrapped(call.api, call.req.rtype,
                         Up(Len(Chain), call.req, 0,
                            NoteRaise(0, 0, call.req.rtype,
                                      [uow |-> uow, trace |-> trace, sig |-> sig,
                                       at |-> Len(Chain) + 1]),
                            env))} :
          /\ call' = [call EXCEPT !.active = FALSE, !.handler = sig]
          /\ uow' = u.uow
          /\ trace' = u.trace
          /\ outcome' = u.sig

HandlerReturns(env) ==
    Complete(Ret(IF call.api = "send_command" THEN NoValue ELSE Response), env)

\* The handler raises a business error, or the HandlerNotFoundException of a
\* dispatch it made itself for an unregistered type.
HandlerRaises(e) == Complete(Raise(e), CalmEnv)

\* The caller's task is cancelled while the handler is awaited.
CancelDispatch == Complete(Cancelled, CalmEnv)

HandlerErrors == {ValueError, HandlerNotFoundException("Unregistered")}

Next ==
    \/ \E t \in CommandTypes : register_command_handler(t)
    \/ \E t \in CommandWithResponseTypes : register_command_with_response_handler(t)
    \/ \E t \in QueryTypes : register_query_handler(t)
    \/ \E b \in BehaviorInstances : add_pipeline_behavior(b)
    \/ \E i \in 1..Len(pipeline_behaviors) : set_mediator(i)
    \/ \E r \in Commands, in_tx \in BOOLEAN : send_command(r, in_tx)
    \/ \E r \in CommandsWithResponse, in_tx \in BOOLEAN : send_command_with_response(r, in_tx)
    \/ \E r \in Queries, in_tx \in BOOLEAN : send_query(r, in_tx)
    \/ \E env \in Envs : HandlerReturns(env)
    \/ \E e \in HandlerErrors : HandlerRaises(e)
    \/ CancelDispatch
    \/ Return

Spec == Init /\ [][Next]_vars

\* The clock advances.
Tick ==
    /\ now < MaxClock
    /\ now' = now + 1
    /\ reply' = NoReply
    /\ UNCHANGED <<outbox, issued, publisher, loops, bus>>
    /\ UNCHANGED mediator_vars

\* The save command for n events, with or without db_session.
SaveCommand(n, correlation_id, has_session) ==
    [Request(IF n = 1 THEN "SaveEventToOutboxCommand" ELSE "SaveEventsToOutboxCommand",
             TRUE, FALSE, has_session, 0, correlation_id) EXCEPT !.events = n]

\* A caller opens a unit of work, sends SaveEventToOutboxCommand (n = 1) or
\* SaveEventsToOutboxCommand for n events of one class, and then commits or
\* closes the unit of work.  from_event fails at event fails_at, if not 0.
SaveEvents(n, event_type, correlation_id, has_session, fails_at, commit) ==
    /\ issued + n <= MaxRows
    /\ commit => has_session
    /\ \E cmd \in {SaveCommand(n, correlation_id, has_session)} :
       \E r \in {HandleSave(cmd, 0, NewFrame(FALSE),
                            [commit_ok |-> TRUE, save_fails_at |-> fails_at])} :
       \E w \in {Flush(NewWork, r.uow.pending, event_type, issued, now)} :
          /\ outbox' = Durable(outbox, w, commit)
          /\ issued' = issued + Len(r.uow.pending)
          /\ reply' = Observe(cmd.rtype, n, correlation_id,
                              IF r.sig.t = "exc" THEN Head(r.sig.exc).kind ELSE "",
                              <<>>, w, commit)
    /\ UNCHANGED <<now, publisher, loops, bus>>
    /\ UNCHANGED mediator_vars

\* A caller opens a unit of work, sends one outbox command or query whose
\* handler leaves the unit of work as w and returns value, and then commits
\* or closes.  Without db_session the handler raises ValueError.
Handled(op, arg, has_session, w, value, commit) ==
    /\ commit => has_session
    /\ outbox' = Durable(outbox, IF has_session THEN w ELSE NewWork, commit)
    /\ reply' = Observe(op, arg, "none", IF has_session THEN "" ELSE Head(ValueError).kind,
                        IF has_session THEN value ELSE <<>>,
                        IF has_session THEN w ELSE NewWork, commit)
    /\ UNCHANGED <<issued, now, publisher, loops, bus>>
    /\ UNCHANGED mediator_vars

\* send_command(MarkEventAsPublishedCommand(event_id))
MarkEventAsPublished(event_id, has_session, commit) ==
    Handled("MarkEventAsPublishedCommand", event_id, has_session,
            MarkEventAsPublishedHandler(outbox, NewWork, event_id, now), <<>>, commit)

\* send_command(MarkEventAsFailedCommand(event_id, error_message))
MarkEventAsFailed(event_id, has_session, commit) ==
    /\ \A id \in DOMAIN outbox : outbox[id].retry_count < MaxRetryCount
    /\ Handled("MarkEventAsFailedCommand", event_id, has_session,
               MarkEventAsFailedHandler(outbox, NewWork, event_id, "timeout"),
               <<>>, commit)

\* send_command(CleanupPublishedEventsCommand(older_than_days)):
\* cutoff_date = utcnow() - timedelta(days=older_than_days)
CleanupPublishedEvents(older_than_days, has_session, commit) ==
    Handled("CleanupPublishedEventsCommand", older_than_days, has_session,
            CleanupPublishedEventsHandler(outbox, NewWork, now - older_than_days),
            <<>>, commit)

\* send_query(GetUnpublishedEventsQuery(limit))
GetUnpublishedEvents(limit, has_session) ==
    \E rows \in GetUnpublishedEventsHandler(View(outbox, NewWork), limit) :
        Handled("GetUnpublishedEventsQuery", limit, has_session, NewWork, rows, FALSE)

\* while self.running: _process_outbox_events opens SessionLocal() and sends
\* GetUnpublishedEventsQuery(limit=batch_size); with no rows it returns
\* (finally: db_session.close()) and the loop sleeps.
BeginCycle(l, stopped) ==
    \E rows \in GetUnpublishedEventsHandler(View(outbox, NewWork), publisher.batch_size) :
        loops' = [loops EXCEPT ![l] =
                    [pc |-> IF rows = <<>> THEN "sleep" ELSE "cycle",
                     batch |-> Fetched(rows), done |-> <<>>, session |-> NewWork,
                     stopped |-> stopped]]

\* start(): returns at once if running, else sets the flag and enters the
\* loop.  A call takes the first free place of loops.
start(l) ==
    /\ loops[l].pc = "idle"
    /\ \A k \in 1..(l - 1) : loops[k].pc # "idle"
    /\ IF publisher.running
       THEN UNCHANGED <<publisher, loops>>
       ELSE /\ publisher' = [publisher EXCEPT !.running = TRUE]
            /\ BeginCycle(l, FALSE)
    /\ reply' = NoReply
    /\ UNCHANGED <<outbox, issued, now, bus>>
    /\ UNCHANGED mediator_vars

\* stop(): self.running = False
stop ==
    /\ publisher.running
    /\ publisher' = [publisher EXCEPT !.running = FALSE]
    /\ loops' = [l \in DOMAIN loops |->
                   IF loops[l].pc = "idle" THEN loops[l]
                   ELSE [loops[l] EXCEPT !.stopped = TRUE]]
    /\ reply' = NoReply
    /\ UNCHANGED <<outbox, issued, now, bus>>
    /\ UNCHANGED mediator_vars

\* The next row of the batch goes through _publish_single_event; after the
\* last one the session is closed and the loop sleeps.
Publish(l, bus_ok) ==
    /\ loops[l].pc = "cycle"
    /\ Len(loops[l].done) < Len(loops[l].batch)
    /\ \E row \in {loops[l].batch[Len(loops[l].done) + 1]} :
       /\ bus_ok \/ row.event_type = "Flaky"
       /\ \E o \in {PublishSingleEvent(row, bus_ok)} :
          /\ bus' = IF o.bus = "ok" THEN bus \cup {row.id} ELSE bus
          /\ loops' = [loops EXCEPT ![l] =
                         [@ EXCEPT !.done = Append(@, o),
                                   !.session = Mark(outbox, @, row.id, o.marks, now)]]
    /\ reply' = NoReply
    /\ UNCHANGED <<outbox, issued, now, publisher>>
    /\ UNCHANGED mediator_vars

\* finally: db_session.close() of _process_outbox_events, then
\* await asyncio.sleep(polling_interval)
EndCycle(l) ==
    /\ loops[l].pc = "cycle"
    /\ Len(loops[l].done) = Len(loops[l].batch)
    /\ loops' = [loops EXCEPT ![l] = [@ EXCEPT !.pc = "sleep", !.session = NewWork]]
    /\ reply' = NoReply
    /\ UNCHANGED <<outbox, issued, now, publisher, bus>>
    /\ UNCHANGED mediator_vars

\* The sleep ends: while self.running goes on with the next cycle, or the
\* loop is left (finally: self.running = False) and start() returns.
Wake(l) ==
    /\ loops[l].pc = "sleep"
    /\ IF publisher.running
       THEN /\ BeginCycle(l, loops[l].stopped)
            /\ UNCHANGED publisher
       ELSE /\ loops' = [loops EXCEPT ![l] = IdleLoop]
            /\ publisher' = [publisher EXCEPT !.running = FALSE]
    /\ reply' = NoReply
    /\ UNCHANGED <<outbox, issued, now, bus>>
    /\ UNCHANGED mediator_vars

\* -------------------------------------------------------- outbox behaviours
\* The publisher is constructed with some batch_size.  The outbox commands
\* and queries reach their handlers directly, as through a mediator without
\* behaviours.
OutboxInit ==
    /\ command_handlers = <<>>
    /\ command_with_response_handlers = <<>>
    /\ query_handlers = <<>>
    /\ pipeline_behaviors = <<>>
    /\ call = NoCall
    /\ uow = NewSession(FALSE)
    /\ trace = <<>>
    /\ outcome = NoOutcome
    /\ outbox = <<>>
    /\ issued = 0
    /\ now = 0
    /\ reply = NoReply
    /\ publisher \in [running : {FALSE}, batch_size : 1..MaxBatch]
    /\ loops = [l \in 1..MaxLoops |-> IdleLoop]
    /\ bus = {}
    /\ time = 0
    /\ request_counts = <<>>
    /\ failure_counts = <<>>
    /\ last_failure_times = <<>>
    /\ cache = <<>>
    /\ tasks = <<>>
    /\ call_count = 0
    /\ admitted = <<>>
    /\ last = <<>>
    /\ tripped = <<>>
    /\ streak = <<>>
    /\ cached_for = <<>>
    /\ dispatches = <<>>
    /\ attached = <<>>

\* The events callers save: their class, the correlation id and whether the
\* command carries a db_session.
SavedEvents ==
    { [event_type |-> "Registered", correlation_id |-> "c1", db_session |-> TRUE],
      [event_type |-> "Unregistered", correlation_id |-> "none", db_session |-> TRUE],
      [event_type |-> "Flaky", correlation_id |-> "c1", db_session |-> TRUE],
      [event_type |-> "Registered", correlation_id |-> "none", db_session |-> FALSE] }

\* Callers use the outbox commands and queries; no publisher runs.
StoreNext ==
    \/ Tick
    \/ \E n \in 1..MaxEvents, saved \in SavedEvents, fails_at \in 0..MaxEvents, commit \in BOOLEAN :
          SaveEvents(n, saved.event_type, saved.correlation_id, saved.db_session,
                     fails_at, commit)
    \/ \E id \in 1..MaxRows, has_session \in BOOLEAN, commit \in BOOLEAN :
          MarkEventAsPublished(id, has_session, commit)
    \/ \E id \in 1..MaxRows, has_session \in BOOLEAN, commit \in BOOLEAN :
          MarkEventAsFailed(id, has_session, commit)
    \/ \E days \in 0..MaxClock, has_session \in BOOLEAN, commit \in BOOLEAN :
          CleanupPublishedEvents(days, has_session, commit)
    \/ \E limit \in 1..MaxRows, has_session \in BOOLEAN :
          GetUnpublishedEvents(limit, has_session)

SpecStore == OutboxInit /\ [][StoreNext]_vars

\* The publisher runs while callers save events and commit them.
PublisherNext ==
    \/ Tick
    \/ \E n \in 1..MaxEvents, event_type \in EventTypes :
          SaveEvents(n, event_type, "c1", TRUE, 0, TRUE)
    \/ \E l \in DOMAIN loops : start(l)
    \/ stop
    \/ \E l \in DOMAIN loops, bus_ok \in BOOLEAN : Publish(l, bus_ok)
    \/ \E l \in DOMAIN loops : EndCycle(l)
    \/ \E l \in DOMAIN loops : Wake(l)

SpecPublisher == OutboxInit /\ [][PublisherNext]_vars

\* The event loop resumes a task whose bus call has returned or whose sleep
\* has ended.
SpecPublisherFair ==
    /\ SpecPublisher
    /\ \A l \in 1..MaxLoops :
          /\ WF_vars(\E bus_ok \in BOOLEAN : Publish(l, bus_ok))
          /\ WF_vars(EndCycle(l))
          /\ WF_vars(Wake(l))

\* =================================================================== claims
\* A send_* call has returned or raised and its outcome is still observed.
Finished == ~call.active /\ call.api # "" /\ outcome.t # "none"

IsOuter(e) == e.depth = 0
IsOnionStep(e) == e.depth = 0 /\ e.ev \in {"before", "after", "handle"}
IsOuterRaise(e) == e.depth = 0 /\ e.ev = "raise"
IsAdd(e) == e.ev = "add"

OnionTrace == SelectSeq(trace, IsOnionStep)
OuterRaises == SelectSeq(trace, IsOuterRaise)
Adds == Len(SelectSeq(trace, IsAdd))

Happened(depth, b, ev) ==
    \E p \in 1..Len(trace) : trace[p].depth = depth /\ trace[p].b = b /\ trace[p].ev = ev

\* B1_before, .., Bn_before, H, Bn_after, .., B1_after for a request type
ExpectedOnion(n, rtype) ==
    [k \in 1..(2 * n + 1) |->
        IF k <= n THEN Ev(0, k, "before", rtype)
        ELSE IF k = n + 1 THEN Ev(0, 0, "handle", rtype)
        ELSE [ev |-> "after", b |-> 2 * n + 2 - k, depth |-> 0, rtype |-> rtype]]

StepOf(e) == [ev |-> e.ev, b |-> e.b, depth |-> e.depth, rtype |-> e.rtype]
StepsOf(tr) == [k \in 1..Len(tr) |-> StepOf(tr[k])]

\* C1: a successful send_* through behaviours [B1..Bn] leaves exactly the
\* trace B1_before, .., Bn_before, H, Bn_after, .., B1_after: the
\* first-registered behaviour is outermost, the handler is invoked exactly
\* once with the request, and with n = 0 the handler is called directly.
C1_OnionTrace ==
    (Finished /\ outcome.t = "ret") =>
        StepsOf(OnionTrace) =
            StepsOf(ExpectedOnion(Len(pipeline_behaviors), call.req.rtype))

C1_Witness ==
    /\ Finished /\ outcome.t = "ret"
    /\ Len(pipeline_behaviors) = 3
    /\ Len(OnionTrace) = 7

\* C2: send_* on a type with no registered handler raises
\* HandlerNotFoundException, which is not a PipelineExecutionException,
\* whatever behaviours are registered, and neither a behaviour nor a handler
\* runs for that call.
C2_HandlerNotFound ==
    (~call.active /\ call.api # "" /\ call.req.rtype \notin DOMAIN Registry(call.api)) =>
        /\ outcome = Raise(HandlerNotFoundException(call.req.rtype))
        /\ ~IsPipelineExecution(outcome.exc)
        /\ trace = <<>>
        /\ uow = NewSession(call.in_tx)

C2_Witness ==
    /\ ~call.active /\ call.api = "send_command"
    /\ call.req.rtype \notin DOMAIN command_handlers
    /\ Len(pipeline_behaviors) = 3
    /\ outcome.t = "exc"

ExpectedPhase ==
    [send_command |-> "CommandExecution",
     send_command_with_response |-> "CommandWithResponseExecution",
     send_query |-> "QueryExecution"]

IsSuffix(e, chain) ==
    /\ Len(e) <= Len(chain)
    /\ SubSeq(chain, Len(chain) - Len(e) + 1, Len(chain)) = e

TransactionAt ==
    {i \in 1..Len(pipeline_behaviors) : pipeline_behaviors[i].kind = "Transaction"}

OutboxAt ==
    {i \in 1..Len(pipeline_behaviors) : pipeline_behaviors[i].kind = "Outbox"}

Entered(i) == Happened(0, i, "before")

\* next_handler() of behaviour i returned a value: the behaviours are chained
\* in registration order, so next is behaviour i + 1, or the handler.
NextReturned(i) ==
    /\ Entered(i)
    /\ IF i = Len(pipeline_behaviors) THEN call.handler.t = "ret"
       ELSE Happened(0, i + 1, "after")

\* next_handler() of behaviour i raised an Exception (not a cancellation).
NextRaised(i) ==
    Entered(i) /\ ~NextReturned(i) /\ call.handler.t # "cancel"

\* The value next_handler() of behaviour i returned.
NextValue(i) ==
    IF i = Len(pipeline_behaviors) THEN call.handler.val
    ELSE LET p == CHOOSE p \in 1..Len(trace) :
                      /\ trace[p].depth = 0 /\ trace[p].b = i + 1
                      /\ trace[p].ev = "after"
         IN  trace[p].val

Position(depth, b, ev) ==
    CHOOSE p \in 1..Len(trace) :
        trace[p].depth = depth /\ trace[p].b = b /\ trace[p].ev = ev

Count(depth, b, ev) ==
    Cardinality({p \in 1..Len(trace) :
                    trace[p].depth = depth /\ trace[p].b = b /\ trace[p].ev = ev})

Occurred(ev) == \E p \in 1..Len(trace) : trace[p].ev = ev

\* The outbox rows of the request's unit of work, flushed or not.
Rows == uow.committed \o uow.pending

ExpectedRows(k, correlation_id) ==
    [j \in 1..k |->
        [event |-> j, correlation_id |-> correlation_id,
         published_at |-> "null", retry_count |-> 0]]

HandlerRaisedError ==
    Finished /\ call.handler.t = "exc" /\ ~IsHandlerNotFound(call.handler.exc)

PipelineExecutionHead ==
    Exc("PipelineExecutionException", call.req.rtype, ExpectedPhase[call.api], "")

RollbackHead ==
    Exc("TransactionPipelineException", call.req.rtype, "TransactionBehavior", "rollback")

\* The wrappers the acting TransactionBehaviors put around an exception e: one
\* per TransactionBehavior of the pipeline if the request is transactional.
RollbackWraps(e) ==
    IF TransactionActs(call.req)
    THEN [k \in 1..Cardinality(TransactionAt) |-> RollbackHead] \o e
    ELSE e

\* C4 (as stated): an exception raised by the handler surfaces from send_* as
\* a PipelineExecutionException whose direct cause is the handler's original
\* exception, whatever behaviours are registered.
C4_WrappedExactlyOnce ==
    HandlerRaisedError =>
        outcome = Raise(<<PipelineExecutionHead>> \o call.handler.exc)

\* C4 (amended): an exception other than HandlerNotFound raised by the
\* handler surfaces from send_* as one PipelineExecutionException of the
\* dispatcher whose cause chain is the handler's original exception, preceded
\* by one TransactionPipelineException("rollback") for each TransactionBehavior
\* that acts on the request; no other behaviour adds a wrapper and the
\* dispatcher never wraps twice.
C4_WrappedOnceByDispatcher ==
    HandlerRaisedError =>
        outcome = Raise(<<PipelineExecutionHead>> \o RollbackWraps(call.handler.exc))

C4_Witness ==
    /\ HandlerRaisedError
    /\ TransactionActs(call.req)
    /\ TransactionAt # {}
    /\ Len(pipeline_behaviors) >= 3
    /\ Len(outcome.exc) = 3

\* C5 (as stated): a HandlerNotFound raised by the handler inside the chain
\* surfaces from send_* verbatim, whatever behaviours are configured around it.
C5_HandlerNotFoundVerbatim ==
    (Finished /\ call.handler.t = "exc" /\ IsHandlerNotFound(call.handler.exc)) =>
        outcome = Raise(call.handler.exc)

\* The outbox collaborators of the dispatch are all in place and none fails:
\* an OutboxBehavior with a mediator is registered, the request carries a
\* unit of work, the save command in use has its handler, and no save raised.
PersistenceWorks ==
    /\ OutboxAt # {}
    /\ \A i \in OutboxAt : pipeline_behaviors[i].mediator
    /\ call.req.db_session
    /\ (IF call.req.domain_events = 1 THEN "SaveEventToOutboxCommand"
        ELSE "SaveEventsToOutboxCommand") \in DOMAIN command_handlers
    /\ ~Occurred("save_failed")

\* C6: OutboxBehavior persists only after its next() returned: a command
\* with k >= 1 domain events that completes successfully (with the outbox
\* wired and its save not failing) leaves exactly k unpublished rows in the
\* request's unit of work, all with the command's correlation id; when
\* next() of the OutboxBehavior did not return, or the behaviour was never
\* reached, no row is added; a query never adds a row; and every add comes
\* after the business handler.
C6_OutboxAfterNext ==
    Finished =>
        /\ (outcome.t = "ret" /\ IsCommandLike(call.req.rtype)
              /\ call.req.domain_events >= 1 /\ PersistenceWorks)
               => /\ Rows = ExpectedRows(call.req.domain_events, call.req.correlation_id)
                  /\ Adds = call.req.domain_events
        /\ (\A i \in OutboxAt : ~NextReturned(i)) => (Adds = 0 /\ Rows = <<>>)
        /\ call.api = "send_query" => (Adds = 0 /\ Rows = <<>>)
        /\ \A p \in 1..Len(trace) :
              trace[p].ev = "add" =>
                  /\ call.handler.t = "ret"
                  /\ Position(0, 0, "handle") < p
                  /\ \E i \in OutboxAt :
                        /\ NextReturned(i)
                        /\ i < Len(pipeline_behaviors) => Position(0, i + 1, "after") < p

C6_Witness ==
    /\ Finished /\ outcome.t = "ret"
    /\ call.req.domain_events = 2
    /\ call.req.correlation_id = "c1"
    /\ Adds = 2
    /\ Len(uow.committed) = 2

\* The end-to-end scenario: [Validation, Logging, Transaction(auto_commit),
\* Outbox] with the mediator set, the save handler registered, one
\* send_command of a transactional command whose handler attached one event
\* and returned, and neither the save nor the commit failing.
FullPipeline ==
    /\ Len(pipeline_behaviors) = 4
    /\ pipeline_behaviors[1].kind = "Validation"
    /\ pipeline_behaviors[2].kind = "Logging"
    /\ pipeline_behaviors[3].kind = "Transaction" /\ pipeline_behaviors[3].auto_commit
    /\ pipeline_behaviors[4].kind = "Outbox" /\ pipeline_behaviors[4].mediator

FullPipelineRun ==
    /\ Finished /\ FullPipeline
    /\ call.api = "send_command"
    /\ call.req.valid /\ TransactionActs(call.req)
    /\ call.req.domain_events = 1
    /\ "SaveEventToOutboxCommand" \in DOMAIN command_handlers
    /\ call.handler.t = "ret"
    /\ ~Occurred("save_failed") /\ ~Occurred("commit_failed")

\* C7: in the end-to-end scenario the business handler is invoked exactly
\* once, the outbox row is added to the unit of work after the handler
\* returned and before the commit, the unit of work is committed exactly once
\* and never rolled back, and exactly one unpublished row with the command's
\* correlation id is persisted by that commit.
C7_FullPipeline ==
    FullPipelineRun =>
        /\ outcome = Ret(NoValue)
        /\ Count(0, 0, "handle") = 1
        /\ Adds = 1
        /\ Count(0, 3, "commit") = 1
        /\ Position(0, 0, "handle") < Position(1, 0, "add")
        /\ Position(1, 0, "add") < Position(0, 3, "commit")
        /\ uow.commits = 1 /\ uow.rollbacks = 0
        /\ uow.committed = ExpectedRows(1, call.req.correlation_id)
        /\ uow.pending = <<>>

C7_Witness ==
    /\ FullPipelineRun
    /\ call.req.correlation_id = "c1"
    /\ ~call.in_tx
    /\ Len(uow.committed) = 1

\* Persisting did not complete although next() of OutboxBehavior i returned
\* for a command with events: fewer rows were added than events carried.
PersistenceFailed(i) ==
    /\ Finished
    /\ NextReturned(i)
    /\ IsCommandLike(call.req.rtype)
    /\ call.req.domain_events >= 1
    /\ Adds < call.req.domain_events

\* C8: when persisting the events fails after next() succeeded (the save
\* raises, its handler is not registered, no mediator or no unit of work is
\* at hand) OutboxBehavior raises nothing and returns exactly the value that
\* next() returned.
C8_OutboxSwallows ==
    \A i \in OutboxAt :
        PersistenceFailed(i) =>
            /\ ~Happened(0, i, "raise")
            /\ Happened(0, i, "after")
            /\ trace[Position(0, i, "after")].val = NextValue(i)

C8_Witness ==
    /\ Finished
    /\ call.api = "send_command_with_response"
    /\ Occurred("save_failed")
    /\ \E i \in OutboxAt : PersistenceFailed(i)
    /\ outcome = Ret(Response)

\* The exception next_handler() of behaviour i raised: the one raised last
\* at the outer dispatch before behaviour i raised its own.
RaisedBefore(i) ==
    LET q == CHOOSE q \in 1..Len(OuterRaises) : OuterRaises[q].b = i
    IN  IF q = 1 THEN <<>> ELSE OuterRaises[q - 1].exc

\* C9: for a request with requires_transaction and a unit of work, an entered
\* TransactionBehavior has called begin iff no transaction was active; if
\* next() returned and auto_commit is set (and the commit did not raise) it
\* committed exactly once and never rolled back; without auto_commit it did
\* neither; if next() or the commit raised an exception it rolled back
\* exactly once, no commit took effect, and it raised
\* TransactionPipelineException(request_type, "rollback") whose cause is the
\* exception raised.  No call ends both committed and rolled back.
C9_TransactionBehavior ==
    /\ ~(uow.commits > 0 /\ uow.rollbacks > 0)
    /\ \A i \in TransactionAt :
          (Finished /\ TransactionActs(call.req) /\ Entered(i)) =>
              /\ uow.begins = (IF call.in_tx THEN 0 ELSE 1)
              /\ (NextReturned(i) /\ pipeline_behaviors[i].auto_commit
                     /\ ~Occurred("commit_failed"))
                    => (uow.commits = 1 /\ uow.rollbacks = 0 /\ ~Happened(0, i, "raise"))
              /\ (NextReturned(i) /\ ~pipeline_behaviors[i].auto_commit)
                    => (uow.commits = 0 /\ uow.rollbacks = 0 /\ ~Happened(0, i, "raise"))
              /\ (NextRaised(i) \/ Occurred("commit_failed"))
                    => /\ uow.rollbacks = 1 /\ uow.commits = 0
                       /\ uow.committed = <<>> /\ uow.pending = <<>>
                       /\ ~uow.in_tx
                       /\ Count(0, i, "raise") = 1
                       /\ trace[Position(0, i, "raise")].exc =
                             <<RollbackHead>> \o
                                (IF Occurred("commit_failed") THEN CommitError
                                 ELSE RaisedBefore(i))

C9_Witness ==
    /\ Finished /\ TransactionActs(call.req)
    /\ \E i \in TransactionAt : NextRaised(i) /\ i < Len(pipeline_behaviors)
    /\ ~call.in_tx
    /\ uow.rollbacks = 1
    /\ call.handler = Raise(ValueError)

\* C10 (as stated): when the dispatch is cancelled while an entered
\* TransactionBehavior awaits next() for a transactional request, the
\* transaction is rolled back before the cancellation reaches the caller: no
\* transaction is left open.
C10_RollbackOnCancel ==
    (Finished /\ call.handler.t = "cancel" /\ TransactionActs(call.req)
        /\ \E i \in TransactionAt : Entered(i))
        => (uow.rollbacks = 1 /\ ~uow.in_tx)

\* ============================================================ outbox claims
\* Loop l begins a cycle with this step while no other loop is in a cycle.
CycleBegins(l) ==
    /\ loops[l].pc # "cycle"
    /\ loops'[l].pc = "cycle"
    /\ \A k \in 1..MaxLoops : k # l => loops[k].pc # "cycle"

\* C11: a row whose event the publisher published to the bus and marked
\* published in one cycle is not returned by GetUnpublishedEventsQuery in a
\* later cycle: the batch of a cycle that begins holds no row the bus has
\* accepted already.
C11_PublishedIsTerminal ==
    [][\A l \in 1..MaxLoops :
          CycleBegins(l) =>
              \A i \in 1..Len(loops'[l].batch) : loops'[l].batch[i].id \notin bus]_vars

\* What the cycle of loop l has done to row i of its batch is one of the
\* three outcomes, and the marks are in the session of the cycle.
RowOutcome(l, i) ==
    LET row == loops[l].batch[i]
        o == loops[l].done[i]
        marked == loops[l].session.rows
    IN  /\ row.event_type \notin event_registry =>
              /\ o.bus = "none"
              /\ o.marks = <<Failed("Unknown event type")>>
        /\ row.event_type \in event_registry => o.bus \in {"ok", "raised"}
        /\ o.bus = "ok" => row.id \in bus /\ o.marks = <<Published>>
        /\ o.bus = "raised" => o.marks = <<Failed("bus error")>>
        /\ loops[l].pc = "cycle" =>
              /\ row.id \in DOMAIN marked
              /\ (marked[row.id].published_at # NoTime) = (o.bus = "ok")
              /\ marked[row.id].retry_count =
                     outbox[row.id].retry_count + (IF o.bus = "ok" THEN 0 ELSE 1)
              /\ marked[row.id].error_message =
                     (IF o.bus = "ok" THEN outbox[row.id].error_message
                      ELSE o.marks[1].error_message)

\* C12: each row of a cycle's batch gets exactly one of three outcomes
\* (unresolved type: no bus call, marked failed once with "Unknown event
\* type"; publish succeeds: marked published, not failed; publish raises:
\* marked failed once with the exception message, not published); the loop
\* sleeps only after every row of the batch was processed, whatever failed,
\* and a loop ends only when it finds the running flag cleared.
C12_OneOutcomePerRow ==
    [][\A l \in 1..MaxLoops :
          /\ Len(loops'[l].done) <= Len(loops'[l].batch)
          /\ \A i \in 1..Len(loops'[l].done) : RowOutcome(l, i)'
          /\ loops'[l].pc = "sleep" => Len(loops'[l].done) = Len(loops'[l].batch)
          /\ (loops[l].pc # "idle" /\ loops'[l].pc = "idle") => ~publisher.running]_vars

\* A cycle went on after a publish that raised, published the next row and
\* reached the sleep with the loop still running.
C12_Witness ==
    \E l \in 1..MaxLoops :
        /\ loops[l].pc = "sleep"
        /\ Len(loops[l].batch) = 2
        /\ loops[l].done[1].bus = "raised"
        /\ loops[l].done[2].bus = "ok"
        /\ publisher.running

\* A cycle is about to publish a row the bus has accepted before (C11).
Republishing ==
    \E l \in 1..MaxLoops :
        /\ loops[l].pc = "cycle"
        /\ \E i \in (Len(loops[l].done) + 1)..Len(loops[l].batch) :
              loops[l].batch[i].id \in bus

\* C13: while the polling loop keeps running, every unpublished row whose
\* event type is registered and whose publish succeeds is eventually
\* published, for any batch_size >= 1 and whatever other rows fail on every
\* cycle.  (Runs in which a published row comes back, the matter of C11, are
\* left aside.)
C13_EventuallyPublished ==
    \A id \in 1..MaxRows :
        (id \in DOMAIN outbox /\ outbox[id].event_type = "Registered")
            ~> (id \in bus \/ ~publisher.running \/ Republishing)

\* C14: stop() is cooperative: the cycle in progress is completed and no
\* further cycle is started; a loop that sleeps after stop() was called
\* leaves the loop when it wakes, and start() returns.
C14_StopIsCooperative ==
    [][\A l \in 1..MaxLoops :
          (loops[l].stopped /\ loops[l].pc = "sleep" /\ loops'[l] # loops[l])
              => loops'[l] = IdleLoop]_vars

\* C15: the publisher is a single loop: whatever the interleaving of start()
\* and stop(), at most one call of start() is in the polling loop while the
\* running flag is set.
C15_SingleLoop ==
    publisher.running => Cardinality({l \in 1..MaxLoops : loops[l].pc # "idle"}) <= 1

\* C16: published_at of a row is set at most once and never unset: once it
\* holds a timestamp, no outbox command changes or clears it, a repeated
\* MarkEventAsPublishedCommand included.
C16_PublishedAtSetOnce ==
    [][\A id \in DOMAIN outbox \cap DOMAIN outbox' :
          outbox[id].published_at # NoTime =>
              outbox'[id].published_at = outbox[id].published_at]_vars

\* The rows of the table that are not published.
Pending == {id \in DOMAIN outbox : outbox[id].published_at = NoTime}

\* C17: GetUnpublishedEventsQuery(limit) returns only rows whose
\* published_at is null, each once, in ascending created_at order, at most
\* limit of them; when more than limit rows are unpublished it returns limit
\* rows and no row it leaves out is older than a row it returns.
C17_UnpublishedInOrder ==
    (reply.op = "GetUnpublishedEventsQuery" /\ reply.error = "") =>
        LET rows == reply.value
            limit == reply.arg
            returned == {rows[i].id : i \in 1..Len(rows)}
        IN  /\ \A i \in 1..Len(rows) :
                  /\ rows[i].id \in Pending
                  /\ rows[i] = outbox[rows[i].id]
            /\ \A i, j \in 1..Len(rows) :
                  i < j => /\ rows[i].id # rows[j].id
                           /\ rows[i].created_at <= rows[j].created_at
            /\ Len(rows) = IF Cardinality(Pending) < limit
                           THEN Cardinality(Pending) ELSE limit
            /\ \A id \in Pending \ returned :
                  \A i \in 1..Len(rows) : rows[i].created_at <= outbox[id].created_at

\* The query with limit 1 returned the older of two unpublished rows.
C17_Witness ==
    /\ reply.op = "GetUnpublishedEventsQuery"
    /\ reply.error = ""
    /\ reply.arg = 1
    /\ Len(reply.value) = 1
    /\ \E id \in Pending : outbox[id].created_at > reply.value[1].created_at

\* The table after the row event_id, if there is one, went through
\* mark_as_failed with the message callers give.
FailedOnce(event_id) ==
    IF event_id \in DOMAIN outbox
    THEN [outbox EXCEPT ![event_id] =
             [@ EXCEPT !.retry_count = @ + 1, !.error_message = "timeout"]]
    ELSE outbox

\* C18: retry_count only increases, and only on failure: a committed
\* MarkEventAsFailedCommand(id, message) adds exactly 1 to the retry_count of
\* row id and sets its error_message, leaving its published_at and every
\* other row as they were; no other operation changes the retry_count of a
\* row, and rows start with retry_count 0.
C18_RetryCountOnFailure ==
    [][/\ \A id \in DOMAIN outbox' \ DOMAIN outbox : outbox'[id].retry_count = 0
       /\ \A id \in DOMAIN outbox \cap DOMAIN outbox' :
             outbox'[id].retry_count >= outbox[id].retry_count
       /\ reply'.op # "MarkEventAsFailedCommand" =>
             \A id \in DOMAIN outbox \cap DOMAIN outbox' :
                 outbox'[id].retry_count = outbox[id].retry_count
       /\ reply'.op = "MarkEventAsFailedCommand" =>
             /\ outbox' = IF reply'.committed THEN FailedOnce(reply'.arg) ELSE outbox
             /\ reply'.error = "" =>
                   View(outbox, reply'.work) = FailedOnce(reply'.arg)]_vars

\* A row was marked failed twice while another row was never marked.
C18_Witness ==
    /\ reply.op = "MarkEventAsFailedCommand"
    /\ reply.committed
    /\ reply.arg \in DOMAIN outbox
    /\ outbox[reply.arg].retry_count = 2
    /\ outbox[reply.arg].error_message = "timeout"
    /\ \E id \in DOMAIN outbox : outbox[id].retry_count = 0

\* C19: SaveEventToOutboxCommand / SaveEventsToOutboxCommand add one pending
\* row per event (published_at null, retry_count 0, the given correlation
\* id) to the caller's unit of work and neither commit it nor roll it back:
\* the rows are in the table iff the caller commits; without a unit of work
\* the handler raises and adds nothing.
C19_SaveAddsPendingRows ==
    [][reply'.op \in {"SaveEventToOutboxCommand", "SaveEventsToOutboxCommand"} =>
          LET added == reply'.work.rows
          IN  /\ reply'.work.deleted = {}
              /\ DOMAIN added \cap DOMAIN outbox = {}
              /\ reply'.error = "" =>
                    /\ Cardinality(DOMAIN added) = reply'.arg
                    /\ \A id \in DOMAIN added :
                          /\ added[id].id = id
                          /\ added[id].published_at = NoTime
                          /\ added[id].retry_count = 0
                          /\ added[id].correlation_id = reply'.correlation_id
              /\ reply'.error = "ValueError" => DOMAIN added = {}
              /\ outbox' = IF reply'.committed
                           THEN [id \in DOMAIN outbox \cup DOMAIN added |->
                                    IF id \in DOMAIN added THEN added[id] ELSE outbox[id]]
                           ELSE outbox]_vars

\* Two events were saved into a unit of work that the caller has not
\* committed: the rows are pending there and the table has none of them.
C19_Witness ==
    /\ reply.op = "SaveEventsToOutboxCommand"
    /\ reply.error = ""
    /\ reply.arg = 2
    /\ ~reply.committed
    /\ Cardinality(DOMAIN reply.work.rows) = 2
    /\ DOMAIN reply.work.rows \cap DOMAIN outbox = {}

\* The published rows whose published_at lies before now - older_than_days.
Expired(older_than_days) ==
    {id \in DOMAIN outbox :
        \E t \in outbox[id].published_at : t < now - older_than_days}

\* What a step may delete: a CleanupPublishedEventsCommand(older_than_days)
\* with a unit of work deletes in it exactly the expired rows, and they leave
\* the table iff the unit of work is committed; no other operation deletes a
\* row.
DeletesOnlyExpired ==
    /\ reply'.op # "CleanupPublishedEventsCommand" => DOMAIN outbox \subseteq DOMAIN outbox'
    /\ reply'.op = "CleanupPublishedEventsCommand" =>
          /\ reply'.work.deleted =
                 IF reply'.error = "" THEN Expired(reply'.arg) ELSE {}
          /\ outbox' = IF reply'.committed
                       THEN [id \in DOMAIN outbox \ Expired(reply'.arg) |-> outbox[id]]
                       ELSE outbox

\* C20 as stated: the cleanup deletes exactly the published rows older than
\* the cutoff and returns their count; nothing else deletes rows.
C20_CleanupReturnsCount ==
    [][/\ DeletesOnlyExpired
       /\ (reply'.op = "CleanupPublishedEventsCommand" /\ reply'.error = "") =>
             reply'.value = <<Cardinality(Expired(reply'.arg))>>]_vars

\* C20 (amended): the cleanup deletes exactly the published rows older than
\* the cutoff, never an unpublished row or a published row not older than
\* the cutoff, and returns None; nothing else deletes rows.
C20_CleanupDeletesExpired ==
    [][/\ DeletesOnlyExpired
       /\ reply'.op = "CleanupPublishedEventsCommand" => reply'.value = <<>>]_vars

\* A committed cleanup deleted one row and left a published row that is not
\* older than the cutoff.
C20_Witness ==
    /\ reply.op = "CleanupPublishedEventsCommand"
    /\ reply.committed
    /\ Cardinality(reply.work.deleted) = 1
    /\ reply.work.deleted \cap DOMAIN outbox = {}
    /\ \E id \in DOMAIN outbox : outbox[id].published_at = {now - reply.arg}


\* ================================================ behaviours called directly
\* The third part models one behaviour instance whose handle() is called
\* directly, as the unit tests do, by up to MaxTasks asyncio tasks at a time.
\* A task runs without interruption from one await to the next, so a call
\* is two steps: Handle runs handle() up to "await next_handler()" (or to
\* the raise or return that comes first) and Resume runs what follows once
\* next_handler() has returned or raised.  The clock may advance between
\* any two steps.  pipeline_behaviors holds the one instance under call.

\* 60 in "one_minute_ago = current_time - 60"
Minute == 60
HalfMinute == Minute \div 2

\* A request object that carries none of the optional attributes.
Plain(request) ==
    request @@ [user_context |-> Missing, authorize |-> Missing,
                rate_limit_key |-> Missing, circuit_breaker_key |-> Missing,
                cache_key |-> Missing]

\* RequestContext(): every field at its default (correlation_id is a uuid4)
RequestContext ==
    [correlation_id |-> "c1", user_context |-> NoValue, db_session |-> FALSE,
     workspace_id |-> NoValue, request_id |-> NoValue, metadata |-> <<>>,
     user_id |-> NoValue, user_roles |-> <<>>, permissions |-> {},
     rate_limit_key |-> NoValue, circuit_breaker_key |-> NoValue,
     cache_key |-> NoValue, requires_transaction |-> FALSE, auto_commit |-> TRUE]

\* context.__dict__ in insertion order: the fields as the dataclass declares them
ContextFields ==
    <<"correlation_id", "user_context", "db_session", "workspace_id", "request_id",
      "metadata", "user_id", "user_roles", "permissions", "rate_limit_key",
      "circuit_breaker_key", "cache_key", "requires_transaction", "auto_commit">>

\* The attributes of a request that its class defines as properties without
\* a setter.
ReadOnly(request) ==
    IF "read_only" \in DOMAIN request THEN request.read_only ELSE {}

AttributeError == <<Exc("AttributeError", "", "", "")>>

\* The position in context.__dict__ of the first field that setattr refuses
\* for the request (past the end: none).
FirstRefused(request) ==
    LET refused == {k \in DOMAIN ContextFields : ContextFields[k] \in ReadOnly(request)}
    IN  IF refused = {} THEN Len(ContextFields) + 1
        ELSE CHOOSE k \in refused : \A j \in refused : k <= j

\* (variant: a field that cannot be set is skipped and the loop goes on)
SetAttrsSkipping(request, context) ==
    [sig |-> Ret(NoValue),
     request |-> [name \in DOMAIN context \ ReadOnly(request) |-> context[name]]
                 @@ request]

\* for attr_name, attr_value in context.__dict__.items(): setattr(request, ..)
\* The loop sets the fields in order and ends at the first setattr that
\* raises: the request object afterwards, and how the loop ended.
SetAttrs(request, context) ==
    LET first == FirstRefused(request)
    IN  IF first > Len(ContextFields)
        THEN [sig |-> Ret(NoValue), request |-> context @@ request]
        ELSE [sig |-> Raise(AttributeError),
              request |-> [name \in {ContextFields[k] : k \in 1..(first - 1)} |->
                              context[name]] @@ request]

\* with_context(request, context): the request object after the call.
with_context(request, context) == SetAttrs(request, context).request

\* context = RequestContext(), with uuid as its correlation_id; then every
\* field the request has an attribute for is copied from the request.
get_context_from_request(request, uuid) ==
    [name \in DOMAIN RequestContext |->
        IF hasattr(request, name) THEN request[name]
        ELSE IF name = "correlation_id" THEN uuid ELSE RequestContext[name]]

\* The instances a test constructs: the behaviours of the mediator model and
\* the four that keep state or check the caller.
DirectInstances ==
    BehaviorInstances
    \cup { [kind |-> "Authorization", require_authentication |-> r] : r \in BOOLEAN }
    \cup { [kind |-> "Caching", cache_ttl |-> t, enable_caching |-> TRUE] :
             t \in {HalfMinute, Minute} }
    \cup { [kind |-> "Caching", cache_ttl |-> Minute, enable_caching |-> FALSE] }
    \cup { [kind |-> "RateLimiting", requests_per_minute |-> n] : n \in 1..MaxLimit }
    \cup { [kind |-> "CircuitBreaker", failure_threshold |-> n, recovery_timeout |-> t] :
             n \in 1..MaxLimit, t \in {HalfMinute, Minute} }

\* The requests a caller hands to the instance: the attributes the behaviour
\* reads vary, the others are absent.
DirectRequests(b) ==
    CASE b.kind = "RateLimiting" ->
            { with_context(Plain(Request("Cmd", TRUE, FALSE, FALSE, 0, "none")),
                           [RequestContext EXCEPT !.rate_limit_key = k]) :
                k \in Keys \cup {NoValue} }
      [] b.kind = "CircuitBreaker" ->
            { with_context(Plain(Request("Cmd", TRUE, FALSE, FALSE, 0, "none")),
                           [RequestContext EXCEPT !.circuit_breaker_key = k]) :
                k \in Keys \cup {NoValue} }
      [] b.kind = "Caching" ->
            { Plain(Request("Cmd", TRUE, FALSE, FALSE, 0, "none")) }
            \cup { with_context(Plain(Request(IF k = NoValue THEN "Cmd" ELSE "Qry",
                                              TRUE, FALSE, FALSE, 0, "none")),
                                [RequestContext EXCEPT !.cache_key = k]) :
                     k \in Keys \cup {NoValue} }
            \cup { with_context(Plain(Request("CmdR", TRUE, FALSE, FALSE, 0, "none")),
                                [RequestContext EXCEPT !.cache_key = "a"]) }
      [] b.kind = "Authorization" ->
            { [Plain(Request("Cmd", TRUE, FALSE, FALSE, 0, "none"))
                  EXCEPT !.user_context = u, !.authorize = a] :
                u \in {NoValue, "u1"}, a \in {Missing, "truthy", "falsy"} }
      [] b.kind = "Validation" ->
            { Plain(Request("Cmd", v, FALSE, FALSE, 0, "none")) : v \in BOOLEAN }
      [] b.kind = "Transaction" ->
            { Plain(Request("Cmd", TRUE, t, s, 0, "none")) : t \in BOOLEAN, s \in BOOLEAN }
      [] b.kind = "Outbox" ->
            { Plain(Request(t, TRUE, FALSE, s, n, "c1")) :
                t \in {"Cmd", "Qry"}, s \in BOOLEAN, n \in 0..1 }
      [] OTHER -> { Plain(Request("Cmd", TRUE, FALSE, FALSE, 0, "none")) }

\* dict.get(key, default)
Get(d, key, default) == IF key \in DOMAIN d THEN d[key] ELSE default

\* ------------------------------------------------------------- exceptions
RateLimitExceededException(rate_limit_key, requests_per_minute) ==
    <<[kind |-> "RateLimitExceededException", request_type |-> "RateLimiting",
       behavior_type |-> "RateLimitingBehavior", operation |-> "",
       rate_limit_key |-> rate_limit_key,
       requests_per_minute |-> requests_per_minute]>>

CircuitBreakerOpenException(circuit_key, failure_count, failure_threshold) ==
    <<[kind |-> "CircuitBreakerOpenException", request_type |-> "CircuitBreaker",
       behavior_type |-> "CircuitBreakerBehavior", operation |-> "",
       circuit_key |-> circuit_key, failure_count |-> failure_count,
       failure_threshold |-> failure_threshold]>>

\* ---------------------------------------------------- RateLimitingBehavior
\* [req_time for req_time in .. if req_time > one_minute_ago]
Recent(times, one_minute_ago) ==
    SelectSeq(times, LAMBDA req_time : req_time > one_minute_ago)

\* "Clean old requests": the key's list is filtered, or created empty
Clean(counts, rate_limit_key, one_minute_ago) ==
    (rate_limit_key :> IF rate_limit_key \in DOMAIN counts
                       THEN Recent(counts[rate_limit_key], one_minute_ago)
                       ELSE <<>>) @@ counts

\* (variant: the limit is compared with > instead of >=)
AdmitAbove(requests_per_minute, counts, rate_limit_key, current_time) ==
    IF Len(counts[rate_limit_key]) > requests_per_minute
    THEN [counts |-> counts,
          sig |-> Raise(RateLimitExceededException(rate_limit_key, requests_per_minute))]
    ELSE [counts |-> [counts EXCEPT ![rate_limit_key] = Append(@, current_time)],
          sig |-> Calling]

\* (variant: the timestamp is recorded before the limit is checked)
AdmitRecorded(requests_per_minute, counts, rate_limit_key, current_time) ==
    IF Len(counts[rate_limit_key]) >= requests_per_minute
    THEN [counts |-> [counts EXCEPT ![rate_limit_key] = Append(@, current_time)],
          sig |-> Raise(RateLimitExceededException(rate_limit_key, requests_per_minute))]
    ELSE [counts |-> [counts EXCEPT ![rate_limit_key] = Append(@, current_time)],
          sig |-> Calling]

\* (variant: one list of timestamps is kept for all keys)
AdmitShared(requests_per_minute, counts, rate_limit_key, current_time) ==
    IF Len(Get(counts, "a", <<>>)) + Len(Get(counts, "b", <<>>)) >= requests_per_minute
    THEN [counts |-> counts,
          sig |-> Raise(RateLimitExceededException(rate_limit_key, requests_per_minute))]
    ELSE [counts |-> [counts EXCEPT ![rate_limit_key] = Append(@, current_time)],
          sig |-> Calling]

\* "Check rate limit" and "Record request"
Admit(requests_per_minute, counts, rate_limit_key, current_time) ==
    IF Len(counts[rate_limit_key]) >= requests_per_minute
    THEN [counts |-> counts,
          sig |-> Raise(RateLimitExceededException(rate_limit_key, requests_per_minute))]
    ELSE [counts |-> [counts EXCEPT ![rate_limit_key] = Append(@, current_time)],
          sig |-> Calling]

RateLimitingHandle(b, counts, request, current_time) ==
    IF getattr(request, "rate_limit_key", NoValue) = NoValue
    THEN [counts |-> counts, sig |-> Calling]
    ELSE Admit(b.requests_per_minute,
               Clean(counts, request.rate_limit_key, current_time - Minute),
               request.rate_limit_key, current_time)

\* -------------------------------------------------- CircuitBreakerBehavior
\* (variant: the failure count is compared with > instead of >=)
IsOpenAbove(b, counts, times, circuit_key, current_time) ==
    /\ circuit_key \in DOMAIN counts
    /\ counts[circuit_key] > b.failure_threshold
    /\ current_time - Get(times, circuit_key, 0) < b.recovery_timeout

\* "Check if circuit is open"
IsOpen(b, counts, times, circuit_key, current_time) ==
    /\ circuit_key \in DOMAIN counts
    /\ counts[circuit_key] >= b.failure_threshold
    /\ current_time - Get(times, circuit_key, 0) < b.recovery_timeout

CircuitBreakerHandle(b, counts, times, request, current_time) ==
    IF getattr(request, "circuit_breaker_key", NoValue) = NoValue THEN Calling
    ELSE IF IsOpen(b, counts, times, request.circuit_breaker_key, current_time)
         THEN Raise(CircuitBreakerOpenException(request.circuit_breaker_key,
                        counts[request.circuit_breaker_key], b.failure_threshold))
         ELSE Calling

\* (variant: a success leaves the failure count as it is)
CircuitBreakerResumeNoReset(b, counts, times, request, current_time, sig) ==
    IF getattr(request, "circuit_breaker_key", NoValue) = NoValue \/ sig.t = "ret"
    THEN [counts |-> counts, times |-> times]
    ELSE [counts |-> (request.circuit_breaker_key :>
                         Get(counts, request.circuit_breaker_key, 0) + 1) @@ counts,
          times |-> (request.circuit_breaker_key :> current_time) @@ times]

\* (variant: a failure is counted without refreshing the last-failure time)
CircuitBreakerResumeStale(b, counts, times, request, current_time, sig) ==
    IF getattr(request, "circuit_breaker_key", NoValue) = NoValue
    THEN [counts |-> counts, times |-> times]
    ELSE IF sig.t = "ret"
         THEN [counts |-> (request.circuit_breaker_key :> 0) @@ counts, times |-> times]
         ELSE [counts |-> (request.circuit_breaker_key :>
                              Get(counts, request.circuit_breaker_key, 0) + 1) @@ counts,
               times |-> (request.circuit_breaker_key :>
                              Get(times, request.circuit_breaker_key, 0)) @@ times]

\* try: response = await next_handler(); counts[key] = 0
\* except Exception: counts[key] = counts.get(key, 0) + 1; times[key] = current_time
CircuitBreakerResume(b, counts, times, request, current_time, sig) ==
    IF getattr(request, "circuit_breaker_key", NoValue) = NoValue
    THEN [counts |-> counts, times |-> times]
    ELSE IF sig.t = "ret"
         THEN [counts |-> (request.circuit_breaker_key :> 0) @@ counts, times |-> times]
         ELSE [counts |-> (request.circuit_breaker_key :>
                              Get(counts, request.circuit_breaker_key, 0) + 1) @@ counts,
               times |-> (request.circuit_breaker_key :> current_time) @@ times]

\* --------------------------------------------------------- CachingBehavior
\* not (not hasattr(request, "cache_key") or not self.enable_caching)
CachingActs(b, request) == hasattr(request, "cache_key") /\ b.enable_caching

\* (variant: an entry is served whatever its age)
HitAlways(b, entries, cache_key, current_time) == cache_key \in DOMAIN entries

\* "Check cache"
Hit(b, entries, cache_key, current_time) ==
    /\ cache_key \in DOMAIN entries
    /\ current_time - entries[cache_key].cached_time < b.cache_ttl

CachingHandle(b, entries, request, current_time) ==
    IF CachingActs(b, request) /\ Hit(b, entries, request.cache_key, current_time)
    THEN Ret(entries[request.cache_key].cached_result)
    ELSE Calling

\* self._cache[cache_key] = (current_time, response), reached when
\* next_handler() returned
CachingResume(b, entries, request, current_time, sig) ==
    IF CachingActs(b, request) /\ sig.t = "ret"
    THEN (request.cache_key :>
             [cached_time |-> current_time, cached_result |-> sig.val]) @@ entries
    ELSE entries

\* ------------------------------------------------------------------- tasks
IdleTask == [pc |-> "idle", request |-> <<>>, current_time |-> 0,
             frame |-> <<>>, result |-> NoValue]

NoStep == [op |-> "", task |-> 0, request |-> <<>>, given |-> NoOutcome,
           sig |-> NoOutcome, frame |-> <<>>]

\* counted_handler: call_count += 1; return f"result_{call_count}"
Result(n) == "result_" \o ToString(n)

\* The calls a rate limiter has let through so far, with the time each
\* arrived.
Admitted(b, request, current_time) ==
    IF b.kind = "RateLimiting" /\ getattr(request, "rate_limit_key", NoValue) # NoValue
    THEN Append(admitted, [key |-> request.rate_limit_key, at |-> current_time])
    ELSE admitted

\* The behaviours that read time.time() for a decision.
ReadsClock(b) == b.kind \in {"RateLimiting", "CircuitBreaker", "Caching"}

\* db_session.in_transaction() when the call arrives; only
\* TransactionBehavior asks.
Sessions(b) == IF b.kind = "Transaction" THEN BOOLEAN ELSE {FALSE}

\* handle() up to its first await of next_handler(): the signal is Calling
\* when next_handler() is reached.
UntilNext(b, request, current_time, in_tx) ==
    CASE b.kind = "RateLimiting" ->
            RateLimitingHandle(b, request_counts, request, current_time)
            @@ [frame |-> NewFrame(in_tx)]
      [] b.kind = "CircuitBreaker" ->
            [counts |-> request_counts, frame |-> NewFrame(in_tx),
             sig |-> CircuitBreakerHandle(b, failure_counts, last_failure_times,
                                          request, current_time)]
      [] b.kind = "Caching" ->
            [counts |-> request_counts, frame |-> NewFrame(in_tx),
             sig |-> CachingHandle(b, cache, request, current_time)]
      [] b.kind = "Authorization" ->
            [counts |-> request_counts, frame |-> NewFrame(in_tx),
             sig |-> AuthorizationHandle(b, request)]
      [] OTHER ->
            [counts |-> request_counts,
             frame |-> BehaviorEnter(1, request, 0, NewFrame(in_tx))]

SigOf(r) == IF "sig" \in DOMAIN r THEN r.sig ELSE r.frame.sig

\* The rest of handle() once next_handler() has given sig.
AfterNext(b, task, sig, env) ==
    CASE b.kind = "CircuitBreaker" ->
            CircuitBreakerResume(b, failure_counts, last_failure_times,
                                 task.request, task.current_time, sig)
            @@ [entries |-> cache, frame |-> Signal(task.frame, sig)]
      [] b.kind = "Caching" ->
            [counts |-> failure_counts, times |-> last_failure_times,
             entries |-> CachingResume(b, cache, task.request, task.current_time, sig),
             frame |-> Signal(task.frame, sig)]
      [] b.kind \in {"RateLimiting", "Authorization"} ->
            [counts |-> failure_counts, times |-> last_failure_times,
             entries |-> cache, frame |-> Signal(task.frame, sig)]
      [] OTHER ->
            [counts |-> failure_counts, times |-> last_failure_times,
             entries |-> cache,
             frame |-> BehaviorExit(1, task.request, 0, Signal(task.frame, sig), env)]

\* The latest recorded failure time at which the key's failure count stood
\* at or above the threshold.
Trip(b, task, r) ==
    IF /\ b.kind = "CircuitBreaker"
       /\ getattr(task.request, "circuit_breaker_key", NoValue) # NoValue
       /\ r.frame.sig.t = "exc"
       /\ r.counts[task.request.circuit_breaker_key] >= b.failure_threshold
    THEN (task.request.circuit_breaker_key :>
             IF Get(tripped, task.request.circuit_breaker_key, 0) > task.current_time
             THEN tripped[task.request.circuit_breaker_key]
             ELSE task.current_time) @@ tripped
    ELSE tripped

\* The calls of a key that next_handler() failed since it last succeeded
\* for the key.
Streak(b, task, sig) ==
    IF b.kind = "CircuitBreaker"
       /\ getattr(task.request, "circuit_breaker_key", NoValue) # NoValue
    THEN (task.request.circuit_breaker_key :>
             IF sig.t = "ret" THEN 0
             ELSE Get(streak, task.request.circuit_breaker_key, 0) + 1) @@ streak
    ELSE streak

\* The type of the request whose response each cache entry holds.
CachedFor(b, task, sig) ==
    IF b.kind = "Caching" /\ CachingActs(b, task.request) /\ sig.t = "ret"
    THEN (task.request.cache_key :> task.request.rtype) @@ cached_for
    ELSE cached_for

dispatch_vars == <<command_handlers, command_with_response_handlers, query_handlers,
                   pipeline_behaviors, call, uow, trace, outcome, dispatches, attached>>

store_vars == <<outbox, issued, now, reply, publisher, loops, bus>>

\* A task calls behavior.handle(request, next_handler).
Handle(c, request, in_tx) ==
    /\ tasks[c].pc = "idle"
    /\ \A d \in 1..(c - 1) : tasks[d].pc # "idle"
    /\ call_count < MaxCalls
    /\ \E r \in {UntilNext(pipeline_behaviors[1], request, time, in_tx)} :
          /\ request_counts' = r.counts
          /\ IF SigOf(r).t = "call"
             THEN /\ call_count' = call_count + 1
                  /\ admitted' = Admitted(pipeline_behaviors[1], request, time)
                  /\ tasks' = [tasks EXCEPT ![c] =
                                  [pc |-> "next", request |-> request,
                                   current_time |-> time, frame |-> r.frame,
                                   result |-> Result(call_count + 1)]]
             ELSE UNCHANGED <<call_count, admitted, tasks>>
          /\ last' = [op |-> "handle", task |-> c, request |-> request,
                      given |-> NoOutcome, sig |-> SigOf(r), frame |-> r.frame]
    /\ UNCHANGED <<time, failure_counts, last_failure_times, cache, tripped, streak,
                   cached_for>>
    /\ UNCHANGED <<dispatch_vars, store_vars>>

\* next_handler() returns its result or raises, and the task runs on to the
\* end of handle().
Resume(c, sig, env) ==
    /\ tasks[c].pc = "next"
    /\ \E r \in {AfterNext(pipeline_behaviors[1], tasks[c], sig, env)} :
          /\ failure_counts' = r.counts
          /\ last_failure_times' = r.times
          /\ cache' = r.entries
          /\ tripped' = Trip(pipeline_behaviors[1], tasks[c], r)
          /\ last' = [op |-> "resume", task |-> c, request |-> tasks[c].request,
                      given |-> sig, sig |-> r.frame.sig, frame |-> r.frame]
    /\ streak' = Streak(pipeline_behaviors[1], tasks[c], sig)
    /\ cached_for' = CachedFor(pipeline_behaviors[1], tasks[c], sig)
    /\ tasks' = [tasks EXCEPT ![c] = IdleTask]
    /\ UNCHANGED <<time, request_counts, call_count, admitted>>
    /\ UNCHANGED <<dispatch_vars, store_vars>>

NextReturns(c, env) == Resume(c, Ret(tasks[c].result), env)
NextRaises(c) == Resume(c, Raise(ValueError), CalmEnv)

\* time.time() moves on.
Elapse ==
    /\ ReadsClock(pipeline_behaviors[1])
    /\ time < MaxTime * HalfMinute
    /\ time' = time + HalfMinute
    /\ last' = NoStep
    /\ UNCHANGED <<request_counts, failure_counts, last_failure_times, cache,
                   tasks, call_count, admitted, tripped, streak, cached_for>>
    /\ UNCHANGED <<dispatch_vars, store_vars>>

BehaviorInit ==
    /\ command_handlers = <<>>
    /\ command_with_response_handlers = <<>>
    /\ query_handlers = <<>>
    /\ pipeline_behaviors \in {<<b>> : b \in DirectInstances}
    /\ call = NoCall
    /\ uow = NewSession(FALSE)
    /\ trace = <<>>
    /\ outcome = NoOutcome
    /\ outbox = <<>>
    /\ issued = 0
    /\ now = 0
    /\ reply = NoReply
    /\ publisher = [running |-> FALSE, batch_size |-> 1]
    /\ loops = [l \in 1..MaxLoops |-> IdleLoop]
    /\ bus = {}
    /\ time = 0
    /\ request_counts = <<>>
    /\ failure_counts = <<>>
    /\ last_failure_times = <<>>
    /\ cache = <<>>
    /\ tasks = [c \in 1..MaxTasks |-> IdleTask]
    /\ call_count = 0
    /\ admitted = <<>>
    /\ last = NoStep
    /\ tripped = <<>>
    /\ streak = <<>>
    /\ cached_for = <<>>
    /\ dispatches = <<>>
    /\ attached = <<>>

BehaviorNext ==
    \/ \E c \in 1..MaxTasks, in_tx \in Sessions(pipeline_behaviors[1]) :
          \E request \in DirectRequests(pipeline_behaviors[1]) : Handle(c, request, in_tx)
    \/ \E c \in 1..MaxTasks, env \in Envs : NextReturns(c, env)
    \/ \E c \in 1..MaxTasks : NextRaises(c)
    \/ Elapse

SpecBehavior == BehaviorInit /\ [][BehaviorNext]_vars

\* ------------------------------------------------- claims on direct calls
\* The instance under call.
Behavior == pipeline_behaviors[1]

\* The clock values of a run.
Times == {n * HalfMinute : n \in 0..MaxTime}

\* Calls carrying key k that the rate limiter passed to next_handler() and
\* that arrived in the 60 seconds ending at t.
InWindow(k, t) ==
    Cardinality({i \in 1..Len(admitted) :
                    /\ admitted[i].key = k
                    /\ admitted[i].at > t - Minute
                    /\ admitted[i].at <= t})

C21_Window ==
    Behavior.kind = "RateLimiting" =>
        \A k \in Keys, t \in Times : InWindow(k, t) <= Behavior.requests_per_minute

\* A call with key k arrives while requests_per_minute admitted calls lie in
\* the window: it raises RateLimitExceededException and never reaches
\* next_handler().
C21_Rejects ==
    \A k \in Keys :
        /\ Behavior.kind = "RateLimiting"
        /\ last'.op = "handle"
        /\ last'.request.rate_limit_key = k
        /\ InWindow(k, time) >= Behavior.requests_per_minute
        => /\ last'.sig = Raise(RateLimitExceededException(k, Behavior.requests_per_minute))
           /\ call_count' = call_count
           /\ admitted' = admitted
           /\ tasks' = tasks

\* C21: with a rate limit of L, no 60-second window holds more than L calls
\* of one key that were passed on to next(), however the calls of concurrent
\* tasks interleave, and a call that arrives while L admitted calls lie in the
\* window raises RateLimitExceeded(key, L) without calling next().
C21_RateLimit == []C21_Window /\ [][C21_Rejects]_vars

\* A call is rejected while an admitted call of the same key is still
\* suspended in next_handler().
C21_Witness ==
    /\ Behavior.kind = "RateLimiting"
    /\ Behavior.requests_per_minute = 2
    /\ last.op = "handle"
    /\ last.sig = Raise(RateLimitExceededException("a", 2))
    /\ InWindow("a", time) = 2
    /\ \E c \in 1..MaxTasks :
          tasks[c].pc = "next" /\ tasks[c].request.rate_limit_key = "a"

\* The timestamps of key k that the rate limiter holds and that still lie in
\* the window ending at t.
Held(counts, k, t) == Recent(Get(counts, k, <<>>), t - Minute)

\* C22: a call the rate limiter rejects records no timestamp and leaves the
\* key's in-window timestamps as they were, and a call is admitted whenever
\* fewer than L admitted calls of its key lie within the last 60 seconds,
\* whatever was rejected before.
C22_RejectionIsFree ==
    [][\A k \in Keys :
          /\ Behavior.kind = "RateLimiting"
          /\ last'.op = "handle"
          /\ last'.request.rate_limit_key = k
          => /\ last'.sig.t = "exc" =>
                   /\ Held(request_counts', k, time) = Held(request_counts, k, time)
                   /\ admitted' = admitted
             /\ InWindow(k, time) < Behavior.requests_per_minute =>
                   /\ last'.sig.t = "call"
                   /\ Held(request_counts', k, time) =
                          Append(Held(request_counts, k, time), time)]_vars

\* A call is rejected after an older admitted call has left the window: the
\* rejection drops the expired timestamp and keeps the one in the window.
C22_Witness ==
    /\ Behavior.kind = "RateLimiting"
    /\ Behavior.requests_per_minute = 1
    /\ last.op = "handle"
    /\ last.sig = Raise(RateLimitExceededException("a", 1))
    /\ time = Minute + HalfMinute
    /\ admitted = <<[key |-> "a", at |-> 0], [key |-> "a", at |-> Minute]>>
    /\ request_counts["a"] = <<Minute>>

C24_CountsFailures ==
    [][\A k \in Keys :
          /\ Behavior.kind = "CircuitBreaker"
          /\ last'.op \in {"handle", "resume"}
          /\ last'.request.circuit_breaker_key = k
          => /\ last'.op = "resume" /\ last'.given.t = "exc" =>
                   /\ k \in DOMAIN failure_counts'
                   /\ failure_counts'[k] = Get(failure_counts, k, 0) + 1
                   /\ last'.sig = last'.given
             /\ last'.op = "resume" /\ last'.given.t = "ret" =>
                   /\ k \in DOMAIN failure_counts'
                   /\ failure_counts'[k] = 0
                   /\ last'.sig = last'.given
             /\ last'.op = "handle" /\ last'.sig.t = "exc" =>
                   Get(streak, k, 0) >= Behavior.failure_threshold]_vars

\* A failure, a success and a failure with threshold 2: the count stands at
\* 1 and the breaker is closed.
C24_Witness ==
    /\ Behavior.kind = "CircuitBreaker"
    /\ Behavior.failure_threshold = 2
    /\ last.op = "resume"
    /\ last.given = Raise(ValueError)
    /\ last.sig = Raise(ValueError)
    /\ last.request.circuit_breaker_key = "a"
    /\ call_count = 3
    /\ failure_counts = [a |-> 1]
    /\ streak = [a |-> 1]
    /\ ~IsOpen(Behavior, failure_counts, last_failure_times, "a", time)

\* C25: once the failure count of a key has reached the threshold, every
\* call of that key that arrives before recovery_timeout has passed since the
\* key's last failure raises CircuitBreakerOpen without invoking next(),
\* however the calls of concurrent tasks interleave.
C25_FailsFast ==
    [][\A k \in Keys :
          /\ Behavior.kind = "CircuitBreaker"
          /\ last'.op = "handle"
          /\ last'.request.circuit_breaker_key = k
          /\ k \in DOMAIN tripped
          /\ time - tripped[k] < Behavior.recovery_timeout
          => /\ last'.sig.t = "exc"
             /\ call_count' = call_count]_vars

\* No other call of the instance is in flight.
Alone(c) == \A d \in 1..MaxTasks : d # c => tasks[d].pc = "idle"

C27_NoKeyNoCache ==
    [][/\ Behavior.kind = "Caching"
       /\ last'.op \in {"handle", "resume"}
       /\ getattr(last'.request, "cache_key", NoValue) = NoValue
       => /\ cache' = cache
          /\ last'.op = "handle" =>
                /\ last'.sig.t = "call"
                /\ call_count' = call_count + 1
          /\ last'.op = "resume" => last'.sig = last'.given]_vars

\* The part of a per-key map that belongs to the keys in S.
Only(d, S) == [k \in DOMAIN d \cap S |-> d[k]]

\* The key under which the behaviour files a request.
KeyOf(request) ==
    CASE Behavior.kind = "RateLimiting" -> getattr(request, "rate_limit_key", NoValue)
      [] Behavior.kind = "CircuitBreaker" -> getattr(request, "circuit_breaker_key", NoValue)
      [] Behavior.kind = "Caching" -> request.cache_key
      [] OTHER -> NoValue

\* A step leaves what the three maps hold for key k as it is.
Untouched(k) ==
    /\ Only(request_counts', {k}) = Only(request_counts, {k})
    /\ Only(failure_counts', {k}) = Only(failure_counts, {k})
    /\ Only(last_failure_times', {k}) = Only(last_failure_times, {k})
    /\ Only(cache', {k}) = Only(cache, {k})

\* The step of a call with key k went as it would have with the entries of
\* every other key removed from the maps.
AsIfAlone(k) ==
    CASE Behavior.kind = "RateLimiting" ->
            last'.op = "handle" =>
               \E r \in {RateLimitingHandle(Behavior, Only(request_counts, {k}),
                                            last'.request, time)} :
                  /\ last'.sig = r.sig
                  /\ Only(request_counts', {k}) = r.counts
      [] Behavior.kind = "CircuitBreaker" ->
            /\ last'.op = "handle" =>
                  last'.sig = CircuitBreakerHandle(Behavior, Only(failure_counts, {k}),
                                  Only(last_failure_times, {k}), last'.request, time)
            /\ last'.op = "resume" =>
                  \E r \in {CircuitBreakerResume(Behavior, Only(failure_counts, {k}),
                                Only(last_failure_times, {k}), last'.request,
                                tasks[last'.task].current_time, last'.given)} :
                     /\ Only(failure_counts', {k}) = r.counts
                     /\ Only(last_failure_times', {k}) = r.times
                     /\ last'.sig = last'.given
      [] Behavior.kind = "Caching" ->
            /\ last'.op = "handle" =>
                  last'.sig = CachingHandle(Behavior, Only(cache, {k}), last'.request, time)
            /\ last'.op = "resume" =>
                  /\ Only(cache', {k}) =
                        CachingResume(Behavior, Only(cache, {k}), last'.request,
                                      tasks[last'.task].current_time, last'.given)
                  /\ last'.sig = last'.given
      [] OTHER -> TRUE

\* C28: the per-key state of RateLimiting, CircuitBreaker and Caching is
\* independent across keys: a call on key A changes nothing that is kept for
\* another key B, and every call on key B is admitted or rejected, finds the
\* breaker open or closed, hits or misses and returns what it would if no
\* call on any other key had been made.
C28_KeysIndependent ==
    [][/\ Behavior.kind \in {"RateLimiting", "CircuitBreaker", "Caching"}
       /\ last'.op \in {"handle", "resume"}
       => /\ \A k \in Keys : k # KeyOf(last'.request) => Untouched(k)
          /\ KeyOf(last'.request) \in Keys => AsIfAlone(KeyOf(last'.request))]_vars

\* With a limit of 1, key a is turned away while a call of key b, made
\* after a's first call, was admitted.
C28_Witness ==
    /\ Behavior.kind = "RateLimiting"
    /\ Behavior.requests_per_minute = 1
    /\ last.op = "handle"
    /\ last.sig = Raise(RateLimitExceededException("a", 1))
    /\ admitted = <<[key |-> "a", at |-> 0], [key |-> "b", at |-> 0]>>
    /\ request_counts = [a |-> <<0>>, b |-> <<0>>]

\* The check of the gate under call passes for the request.
Passes(request) ==
    CASE Behavior.kind = "Validation" -> request.valid
      [] Behavior.kind = "Authorization" ->
            /\ Behavior.require_authentication =>
                  getattr(request, "user_context", NoValue) # NoValue
            /\ request.authorize \in {Missing, "truthy"}
      [] OTHER -> TRUE

\* The exception a gate raises is its own.
Rejection(sig) ==
    /\ sig.t = "exc"
    /\ sig.exc[1].kind = (IF Behavior.kind = "Validation"
                          THEN "ValidationPipelineException"
                          ELSE "AuthorizationPipelineException")

\* C29: a rejecting gate short-circuits the chain: when Validation finds the
\* request invalid, or Authorization finds user_context missing though
\* required or authorize() falsy, handle() raises before next() is called,
\* so nothing behind the gate runs; next() is called only when the check
\* passes.
C29_GateShortCircuits ==
    [][/\ Behavior.kind \in {"Validation", "Authorization"}
       /\ last'.op = "handle"
       => IF Passes(last'.request)
          THEN /\ last'.sig.t = "call"
               /\ call_count' = call_count + 1
               /\ tasks'[last'.task].pc = "next"
          ELSE /\ Rejection(last'.sig)
               /\ call_count' = call_count
               /\ tasks' = tasks]_vars

\* Authentication is not required, and a request whose authorize() returns
\* False is turned away before the handler has run once.
C29_Witness ==
    /\ Behavior.kind = "Authorization"
    /\ ~Behavior.require_authentication
    /\ last.op = "handle"
    /\ last.request.authorize = "falsy"
    /\ last.sig = Raise(AuthorizationPipelineException("Cmd", NoValue, "custom_authorization"))
    /\ call_count = 0
    /\ \A c \in 1..MaxTasks : tasks[c].pc = "idle"

\* The request lacks what the behaviour under call looks for.
Absent(request) ==
    CASE Behavior.kind = "Transaction" ->
            ~request.requires_transaction \/ ~request.db_session
      [] Behavior.kind = "RateLimiting" ->
            getattr(request, "rate_limit_key", NoValue) = NoValue
      [] Behavior.kind = "CircuitBreaker" ->
            getattr(request, "circuit_breaker_key", NoValue) = NoValue
      [] Behavior.kind = "Outbox" ->
            ~IsCommandLike(request.rtype) \/ request.domain_events = 0
      [] OTHER -> FALSE

\* The step changes nothing a behaviour keeps.
KeepsState ==
    /\ request_counts' = request_counts
    /\ failure_counts' = failure_counts
    /\ last_failure_times' = last_failure_times
    /\ cache' = cache

\* The session is as the caller handed it over: nothing begun, committed,
\* rolled back, queued or written.
UntouchedSession(s) == s = NewSession(s.in_tx)

\* C30: when the capability a behaviour looks for is absent (Transaction
\* without requires_transaction or without a unit of work, RateLimiting
\* without rate_limit_key, CircuitBreaker without circuit_breaker_key, Outbox
\* with a query or without domain events), handle() calls next() once,
\* returns or raises exactly what next() does, and changes neither the
\* behaviour's state nor the unit of work.
C30_AbsentCapabilityIsNoOp ==
    [][/\ last'.op \in {"handle", "resume"}
       /\ Absent(last'.request)
       => /\ KeepsState
          /\ UntouchedSession(last'.frame.uow)
          /\ last'.op = "handle" =>
                /\ last'.sig.t = "call"
                /\ call_count' = call_count + 1
                /\ tasks'[last'.task].pc = "next"
          /\ last'.op = "resume" =>
                /\ last'.sig = last'.given
                /\ call_count' = call_count
                /\ tasks'[last'.task].pc = "idle"]_vars

\* TransactionBehavior is handed a request that asks for a transaction but
\* carries no session: the handler's ValueError comes back as it is.
C30_Witness ==
    /\ Behavior.kind = "Transaction"
    /\ last.op = "resume"
    /\ last.request.requires_transaction
    /\ ~last.request.db_session
    /\ last.sig = Raise(ValueError)
    /\ last.frame.uow = NewSession(FALSE)
    /\ call_count = 1

\* ===================================================== marks that fail
\* The fourth part lets the mark commands of the publisher fail: send_command
\* raises (no handler registered, a behaviour of the mediator or the database
\* raises) before the handler has changed the row.

\* (variant: the error of the mark command leaves _mark_as_published and
\* reaches the except branch of _publish_single_event)
HandledMarksRaising(marks, mark_ok) ==
    IF mark_ok THEN marks
    ELSE IF marks = <<Published>> THEN <<Failed("mark error")>> ELSE <<>>

\* _mark_as_published / _mark_as_failed: try: await send_command(command)
\* except Exception: logger.error(..).  The marks that were handled.
HandledMarks(marks, mark_ok) == IF mark_ok THEN marks ELSE <<>>

\* What _publish_single_event did for a row: the bus call, the marks that
\* were handled and whether send_command of the mark command returned.
Sent(o, handled, mark_ok) ==
    [bus |-> o.bus, marks |-> handled,
     send_command |-> IF mark_ok THEN "returned" ELSE "raised"]

\* The next row of the batch goes through _publish_single_event, given
\* whether message_bus.publish_event returns and whether send_command of the
\* mark command returns.
publish_single_event(l, bus_ok, mark_ok) ==
    /\ loops[l].pc = "cycle"
    /\ Len(loops[l].done) < Len(loops[l].batch)
    /\ \E row \in {loops[l].batch[Len(loops[l].done) + 1]} :
       /\ bus_ok \/ row.event_type = "Flaky"
       /\ \E o \in {PublishSingleEvent(row, bus_ok)} :
          \E handled \in {HandledMarks(o.marks, mark_ok)} :
          /\ bus' = IF o.bus = "ok" THEN bus \cup {row.id} ELSE bus
          /\ loops' = [loops EXCEPT ![l] =
                         [@ EXCEPT !.done = Append(@, Sent(o, handled, mark_ok)),
                                   !.session = Mark(outbox, @, row.id, handled, now)]]
    /\ reply' = NoReply
    /\ UNCHANGED <<outbox, issued, now, publisher>>
    /\ UNCHANGED mediator_vars

DeliveryNext ==
    \/ Tick
    \/ \E n \in 1..MaxEvents, event_type \in EventTypes :
          SaveEvents(n, event_type, "c1", TRUE, 0, TRUE)
    \/ \E l \in DOMAIN loops : start(l)
    \/ stop
    \/ \E l \in DOMAIN loops, bus_ok \in BOOLEAN, mark_ok \in BOOLEAN :
          publish_single_event(l, bus_ok, mark_ok)
    \/ \E l \in DOMAIN loops : EndCycle(l)
    \/ \E l \in DOMAIN loops : Wake(l)

SpecDelivery == OutboxInit /\ [][DeliveryNext]_vars

\* ============================================== the cached unpublished query
\* The fifth part sends GetUnpublishedEventsQuery through a mediator whose
\* one behaviour is a CachingBehavior, while callers save events and mark
\* them published.  The query handler does not suspend, so send_query is
\* one step.

\* GetUnpublishedEventsQuery(limit, db_session) with its property
\* cache_key = f"unpublished_events:{self.limit}"
GetUnpublishedEventsQuery(limit, db_session) ==
    [limit |-> limit, read_only |-> {"cache_key"}]
    @@ [Plain(Request("GetUnpublishedEventsQuery", TRUE, FALSE, db_session, 0, "none"))
           EXCEPT !.cache_key = "unpublished_events:" \o ToString(limit)]

\* What the handler gives the query: ValueError without db_session, else rows.
QueryHandled(query, rows) ==
    IF query.db_session THEN Ret(rows) ELSE Raise(ValueError)

\* send_query(query) through CachingBehavior b with the entries of its cache:
\* the entries afterwards and what the caller gets.
SendCachedQuery(b, entries, query, rows, current_time) ==
    IF CachingHandle(b, entries, query, current_time).t = "ret"
    THEN [entries |-> entries,
          sig |-> Wrap("send_query", query.rtype,
                       CachingHandle(b, entries, query, current_time))]
    ELSE [entries |-> CachingResume(b, entries, query, current_time,
                                    QueryHandled(query, rows)),
          sig |-> Wrap("send_query", query.rtype, QueryHandled(query, rows))]

\* await mediator.send_query(GetUnpublishedEventsQuery(limit, db_session))
GetUnpublishedEventsCached(limit, has_session) ==
    /\ \E rows \in GetUnpublishedEventsHandler(View(outbox, NewWork), limit) :
       \E r \in {SendCachedQuery(pipeline_behaviors[1], cache,
                                 GetUnpublishedEventsQuery(limit, has_session),
                                 rows, time)} :
          /\ cache' = r.entries
          /\ reply' = Observe("GetUnpublishedEventsQuery", limit, "none",
                              IF r.sig.t = "exc" THEN Head(r.sig.exc).kind ELSE "",
                              IF r.sig.t = "ret" THEN r.sig.val ELSE <<>>,
                              NewWork, FALSE)
    /\ UNCHANGED <<outbox, issued, now, publisher, loops, bus>>
    /\ UNCHANGED <<time, request_counts, failure_counts, last_failure_times,
                   tasks, call_count, admitted, last, tripped, streak, cached_for>>
    /\ UNCHANGED dispatch_vars

\* No send_* call through the single-dispatch mediator has been made.
NoDispatch ==
    /\ call = NoCall
    /\ uow = NewSession(FALSE)
    /\ trace = <<>>
    /\ outcome = NoOutcome

\* An empty event_outbox table and a publisher that was not started.
EmptyStore ==
    /\ outbox = <<>>
    /\ issued = 0
    /\ now = 0
    /\ reply = NoReply
    /\ publisher = [running |-> FALSE, batch_size |-> 1]
    /\ loops = [l \in 1..MaxLoops |-> IdleLoop]
    /\ bus = {}

\* Behaviours as constructed: empty maps, no call of handle() made.
FreshBehaviors ==
    /\ time = 0
    /\ request_counts = <<>>
    /\ failure_counts = <<>>
    /\ last_failure_times = <<>>
    /\ cache = <<>>
    /\ tasks = <<>>
    /\ call_count = 0
    /\ admitted = <<>>
    /\ last = NoStep
    /\ tripped = <<>>
    /\ streak = <<>>
    /\ cached_for = <<>>

\* The mediator has the query handler and one CachingBehavior.
CachedQueryInit ==
    /\ command_handlers = <<>>
    /\ command_with_response_handlers = <<>>
    /\ query_handlers = [t \in {"GetUnpublishedEventsQuery"} |-> Handler]
    /\ pipeline_behaviors \in {<<b>> : b \in {d \in DirectInstances : d.kind = "Caching"}}
    /\ NoDispatch
    /\ EmptyStore
    /\ FreshBehaviors
    /\ dispatches = <<>>
    /\ attached = <<>>

CachedQueryNext ==
    \/ Tick
    \/ Elapse
    \/ \E n \in 1..MaxEvents : SaveEvents(n, "Registered", "c1", TRUE, 0, TRUE)
    \/ \E id \in 1..MaxRows, commit \in BOOLEAN : MarkEventAsPublished(id, TRUE, commit)
    \/ \E limit \in 1..MaxRows, has_session \in BOOLEAN :
          GetUnpublishedEventsCached(limit, has_session)

SpecCachedQuery == CachedQueryInit /\ [][CachedQueryNext]_vars


\* ------------------------------------- the save command and the other behaviours
\* A mediator as the application wires it: the command handler and the two
\* save handlers are registered, and the pipeline holds an
\* AuthorizationBehavior and an OutboxBehavior with its mediator set, in
\* either order, or with a TransactionBehavior between them.
AuthorizedPipelines ==
    LET outbox_behavior == [kind |-> "Outbox", auto_commit |-> FALSE, mediator |-> TRUE]
        transaction == [kind |-> "Transaction", auto_commit |-> TRUE, mediator |-> FALSE]
        authorization(r) == [kind |-> "Authorization", require_authentication |-> r]
    IN  UNION { { <<authorization(r), outbox_behavior>>,
                  <<outbox_behavior, authorization(r)>>,
                  <<authorization(r), transaction, outbox_behavior>> } : r \in BOOLEAN }

\* The commands of an authenticated or anonymous caller.
AuthorizedCommands ==
    { [Plain(Request("Cmd", TRUE, rt, db, n, IF n > 0 /\ db THEN "c1" ELSE "none"))
           EXCEPT !.user_context = u] :
        rt \in BOOLEAN, db \in BOOLEAN, n \in 0..MaxEvents, u \in {NoValue, "u1"} }

AuthorizedInit ==
    /\ command_handlers =
          [t \in {"Cmd", "SaveEventToOutboxCommand", "SaveEventsToOutboxCommand"} |-> Handler]
    /\ command_with_response_handlers = <<>>
    /\ query_handlers = <<>>
    /\ pipeline_behaviors \in AuthorizedPipelines
    /\ NoDispatch
    /\ EmptyStore
    /\ FreshBehaviors
    /\ dispatches = <<>>
    /\ attached = <<>>

AuthorizedNext ==
    \/ \E r \in AuthorizedCommands : send_command(r, FALSE)
    \/ \E env \in Envs : HandlerReturns(env)
    \/ \E e \in HandlerErrors : HandlerRaises(e)
    \/ CancelDispatch
    \/ Return

SpecAuthorized == AuthorizedInit /\ [][AuthorizedNext]_vars

\* ------------------------------------------------------- context attachment
\* The contexts a caller builds: the fields the behaviours read take other
\* values than the defaults.
Contexts ==
    { [RequestContext EXCEPT !.correlation_id = c, !.user_context = u,
                             !.db_session = d, !.cache_key = k,
                             !.requires_transaction = t, !.auto_commit = a] :
        c \in {"c1", "c2"}, u \in {NoValue, "u1"}, d \in BOOLEAN,
        k \in {NoValue, "a"}, t \in BOOLEAN, a \in BOOLEAN }

\* The request objects a context is attached to: an object with one
\* attribute of its own, commands that have attributes named like context
\* fields, and the unpublished-events query, whose cache_key is a property.
ContextRequests ==
    { [rtype |-> "Cmd", value |-> "v1"] }
    \cup { Request("Cmd", TRUE, t, d, 0, "c2") : t \in BOOLEAN, d \in BOOLEAN }
    \cup { GetUnpublishedEventsQuery(limit, TRUE) : limit \in 1..MaxLimit }

Attachment(request, context) ==
    [original |-> request, request |-> request, context |-> context,
     op |-> "new", sig |-> NoOutcome, extracted |-> <<>>]

ContextInit ==
    /\ command_handlers = <<>>
    /\ command_with_response_handlers = <<>>
    /\ query_handlers = <<>>
    /\ pipeline_behaviors = <<>>
    /\ NoDispatch
    /\ EmptyStore
    /\ FreshBehaviors
    /\ dispatches = <<>>
    /\ attached \in { Attachment(r, c) : r \in ContextRequests, c \in Contexts }

context_vars == <<command_handlers, command_with_response_handlers, query_handlers,
                  pipeline_behaviors, call, uow, trace, outcome,
                  outbox, issued, now, reply, publisher, loops, bus,
                  time, request_counts, failure_counts, last_failure_times, cache,
                  tasks, call_count, admitted, last, tripped, streak,
                  cached_for, dispatches>>

\* with_context(request, context) is called on the request object.
WithContext ==
    /\ attached.op = "new"
    /\ \E r \in {SetAttrs(attached.request, attached.context)} :
          attached' = [attached EXCEPT !.request = r.request, !.sig = r.sig,
                                       !.op = "with_context"]
    /\ UNCHANGED context_vars

\* get_context_from_request(request) is called on the request object, whether
\* or not a context was attached to it; uuid is the uuid4 of the new context.
GetContextFromRequest(uuid) ==
    /\ attached.op \in {"new", "with_context"}
    /\ attached' = [attached EXCEPT
                       !.extracted = get_context_from_request(attached.request, uuid),
                       !.op = "get_context_from_request"]
    /\ UNCHANGED context_vars

ContextNext ==
    \/ WithContext
    \/ \E uuid \in {"c3", "c4"} : GetContextFromRequest(uuid)

SpecContext == ContextInit /\ [][ContextNext]_vars

\* ------------------------------------------------------ concurrent dispatches
\* Callers run send_* concurrently on one mediator (asyncio.gather): a
\* send_* runs without interruption until its handler suspends, and again
\* from the handler's completion to its end.  Handlers are registered and
\* re-registered in between.  dispatches holds the calls, the log every
\* handler keeps of the requests it was given (handled_commands), the
\* register_* calls made so far, and the calls in the order they finished.

Apis == {"send_command", "send_command_with_response", "send_query"}

\* Two handler objects: one whose handle is a coroutine function, one whose
\* handle is a plain function.
Handlers == {Handler, [id |-> "h2", is_async |-> FALSE]}

\* Two requests of one type that differ in their value and in what they ask
\* of the behaviours.
ConcurrentRequests ==
    { [value |-> "v1"] @@ Request("Cmd", TRUE, TRUE, TRUE, 0, "none"),
      [value |-> "v2"] @@ Request("Cmd", TRUE, FALSE, FALSE, 0, "none") }

ConcurrentPipelines ==
    { <<>>,
      <<[kind |-> "Logging", auto_commit |-> FALSE, mediator |-> FALSE],
        [kind |-> "Transaction", auto_commit |-> TRUE, mediator |-> FALSE]>> }

\* self._command_handlers.get(command_type) is None
NoHandler == [id |-> "", is_async |-> FALSE]

IdleDispatch ==
    [pc |-> "idle", api |-> "", request |-> <<>>, handler |-> NoHandler, epoch |-> 0,
     frame |-> <<>>, given |-> NoOutcome, outcome |-> NoOutcome]

ConcurrentInit ==
    /\ command_handlers = <<>>
    /\ command_with_response_handlers = <<>>
    /\ query_handlers = <<>>
    /\ pipeline_behaviors \in ConcurrentPipelines
    /\ NoDispatch
    /\ EmptyStore
    /\ FreshBehaviors
    /\ dispatches = [calls |-> [c \in 1..MaxTasks |-> IdleDispatch],
                     handled |-> <<>>, registered |-> <<>>, finished |-> <<>>]
    /\ attached = <<>>

concurrent_vars == <<call, uow, trace, outcome,
                     outbox, issued, now, reply, publisher, loops, bus,
                     time, request_counts, failure_counts, last_failure_times, cache,
                     tasks, call_count, admitted, last, tripped, streak,
                     cached_for, attached>>

\* register_command_handler / register_command_with_response_handler /
\* register_query_handler, by the entry point whose registry is written.
Register(api, rtype, handler) ==
    /\ Len(dispatches.registered) < MaxRegistrations
    /\ command_handlers' =
           IF api = "send_command"
           THEN SetItem(command_handlers, rtype, handler) ELSE command_handlers
    /\ command_with_response_handlers' =
           IF api = "send_command_with_response"
           THEN SetItem(command_with_response_handlers, rtype, handler)
           ELSE command_with_response_handlers
    /\ query_handlers' =
           IF api = "send_query"
           THEN SetItem(query_handlers, rtype, handler) ELSE query_handlers
    /\ dispatches' = [dispatches EXCEPT !.registered =
                         Append(@, [api |-> api, rtype |-> rtype, handler |-> handler])]
    /\ UNCHANGED pipeline_behaviors
    /\ UNCHANGED concurrent_vars

\* What the handlers of the tests return: nothing for a command, a response
\* made from the request's value otherwise.
HandlerValue(api, request) ==
    IF api = "send_command" THEN NoValue ELSE "Response: " \o request.value

\* What handle() of a handler does with a request: return its value or raise.
HandlerOutcomes(api, request) == {Ret(HandlerValue(api, request)), Raise(ValueError)}

Coroutine == [t |-> "coroutine", val |-> NoValue, exc |-> <<>>]
NotAwaitable == <<Exc("TypeError", "", "", "")>>

\* (variant: the result of handle() is awaited whatever it is)
AwaitAlways(result) ==
    IF result.t = "coroutine" THEN Calling ELSE Raise(NotAwaitable)

\* _ensure_awaitable(result): a coroutine or future is awaited, and the call
\* suspends; any other result is returned as it is.
EnsureAwaitable(result) ==
    IF result.t = "coroutine" THEN Calling ELSE result

\* lambda: self._ensure_awaitable(handler.handle(request)): a coroutine
\* function gives a coroutine; a plain function has run when handle()
\* returns, and what it raised leaves the lambda before _ensure_awaitable.
HandlerFunc(handler, given) ==
    IF handler.is_async THEN EnsureAwaitable(Coroutine)
    ELSE IF given.t = "exc" THEN given
    ELSE EnsureAwaitable(given)

\* From the handler's completion with sig to the end of send_*: the entered
\* behaviours unwind with the request their closures hold.
Unwound(api, request, frame, sig) ==
    Wrapped(api, request.rtype,
            Up(Len(Chain), request, 0,
               NoteRaise(0, 0, request.rtype,
                         [frame EXCEPT !.sig = sig, !.at = Len(Chain) + 1]),
               CalmEnv))

\* The frame of a send_* whose descent ended with frame r: it is finished if
\* the descent did not reach the handler or the handler did not suspend.
Invoked(api, request, handler, r, given) ==
    IF r.sig.t # "call" THEN r
    ELSE IF HandlerFunc(handler, given).t = "call" THEN r
    ELSE Unwound(api, request, r, HandlerFunc(handler, given))

\* (variant: the request is kept on the mediator, where the send_* that
\* reached its handler last has put its own)
ClosureRequestShared(d, c) ==
    IF d.handled = <<>> THEN d.calls[c].request
    ELSE d.handled[Len(d.handled)].request

\* The request that the closures of call c refer to: the local variable of
\* its _execute_pipeline frame.
ClosureRequest(d, c) == d.calls[c].request

\* send_*(request) by a caller, up to the suspension in the handler or to the
\* end.  given is what a plain-function handler does with the request.
SendConcurrently(c, api, request, given) ==
    /\ dispatches.calls[c].pc = "idle"
    /\ \A k \in 1..(c - 1) : dispatches.calls[k].pc # "idle"
    /\ given.t # "none" <=>
           /\ request.rtype \in DOMAIN Registry(api)
           /\ ~Registry(api)[request.rtype].is_async
    /\ \E handler \in {IF request.rtype \in DOMAIN Registry(api)
                       THEN Registry(api)[request.rtype] ELSE NoHandler} :
       \E r \in {Dispatch(api, request, NewFrame(FALSE))} :
       \E f \in {Invoked(api, request, handler, r, given)} :
          dispatches' =
              [dispatches EXCEPT
                  !.calls[c] = [pc |-> IF f.sig.t = "call" THEN "awaiting" ELSE "done",
                                api |-> api, request |-> request, handler |-> handler,
                                epoch |-> Len(dispatches.registered),
                                frame |-> f,
                                given |-> IF f.sig.t = "call" THEN NoOutcome ELSE given,
                                outcome |-> IF f.sig.t = "call" THEN NoOutcome ELSE f.sig],
                  !.handled = IF r.sig.t = "call"
                              THEN Append(@, [call |-> c, handler |-> handler.id,
                                              request |-> request])
                              ELSE @,
                  !.finished = IF f.sig.t = "call" THEN @ ELSE Append(@, c)]
    /\ UNCHANGED <<command_handlers, command_with_response_handlers, query_handlers,
                   pipeline_behaviors>>
    /\ UNCHANGED concurrent_vars

\* The coroutine of the handler of call c finishes, returning its value or
\* raising, and the call runs to its end.
HandlerCompletes(c, returns) ==
    /\ dispatches.calls[c].pc = "awaiting"
    /\ \E sig \in {IF returns
                   THEN Ret(HandlerValue(dispatches.calls[c].api,
                                         dispatches.calls[c].request))
                   ELSE Raise(ValueError)} :
       \E u \in {Unwound(dispatches.calls[c].api, ClosureRequest(dispatches, c),
                         dispatches.calls[c].frame, sig)} :
          dispatches' = [dispatches EXCEPT
                            !.calls[c] = [@ EXCEPT !.pc = "done", !.frame = u,
                                                   !.given = sig, !.outcome = u.sig],
                            !.finished = Append(@, c)]
    /\ UNCHANGED <<command_handlers, command_with_response_handlers, query_handlers,
                   pipeline_behaviors>>
    /\ UNCHANGED concurrent_vars

ConcurrentNext ==
    \/ \E api \in Apis, h \in Handlers : Register(api, "Cmd", h)
    \/ \E c \in 1..MaxTasks, api \in Apis, r \in ConcurrentRequests :
          \E given \in HandlerOutcomes(api, r) \cup {NoOutcome} :
              SendConcurrently(c, api, r, given)
    \/ \E c \in 1..MaxTasks, returns \in BOOLEAN : HandlerCompletes(c, returns)

SpecConcurrent == ConcurrentInit /\ [][ConcurrentNext]_vars

\* ======================================================== claims on delivery
\* With this step loop l has put a row of its batch through
\* _publish_single_event: the bus accepted the event and the mark command
\* raised.
Unmarked(l) ==
    /\ Len(loops'[l].done) = Len(loops[l].done) + 1
    /\ loops'[l].done[Len(loops'[l].done)].bus = "ok"
    /\ loops'[l].done[Len(loops'[l].done)].send_command = "raised"

\* A row that a cycle has delivered is in the table, unpublished, when loop l
\* fetches its next batch: the batch holds it, unless rows with the same
\* created_at fill the batch (the database orders them as it likes).
Redelivered(l) ==
    \A id \in bus \cap Unpublished(outbox) :
        \/ \E i \in 1..Len(loops'[l].batch) : loops'[l].batch[i].id = id
        \/ /\ Len(loops'[l].batch) = publisher.batch_size
           /\ \A i \in 1..Len(loops'[l].batch) :
                 outbox[loops'[l].batch[i].id].created_at <= outbox[id].created_at
           /\ \E i \in 1..Len(loops'[l].batch) :
                 outbox[loops'[l].batch[i].id].created_at = outbox[id].created_at

\* C35: delivery is at least once and a delivered event is not recorded as
\* failed: when the bus publish of a row succeeds and the mark-as-published
\* command fails, the error is swallowed (the cycle goes on), the row is
\* marked neither failed nor published (retry_count, error_message and
\* published_at as before, in the session and in the table), it stays
\* unpublished, and the batch of the next cycle holds it again.
C35_AtLeastOnce ==
    [][\A l \in 1..MaxLoops :
          /\ Unmarked(l) =>
                LET row == loops[l].batch[Len(loops'[l].done)]
                IN  /\ row.id \in bus'
                    /\ loops'[l].done[Len(loops'[l].done)].marks = <<>>
                    /\ loops'[l].pc = "cycle"
                    /\ loops'[l].session = loops[l].session
                    /\ outbox' = outbox
                    /\ row.id \in Unpublished(outbox')
                    /\ row.id \in DOMAIN loops'[l].session.rows =>
                          loops'[l].session.rows[row.id].published_at = NoTime
          /\ (loops'[l].pc = "cycle" /\ loops[l].pc # "cycle") => Redelivered(l)]_vars

\* In one cycle the publish of the first row raised and the row was marked
\* failed; the second row was delivered, its mark command raised, and the
\* session of the cycle holds nothing for it.
C35_Witness ==
    \E l \in 1..MaxLoops :
        /\ loops[l].pc = "cycle"
        /\ Len(loops[l].batch) = 2
        /\ Len(loops[l].done) = 2
        /\ loops[l].done[1] = Sent(Outcome("raised", <<>>), <<Failed("bus error")>>, TRUE)
        /\ loops[l].done[2] = Sent(Outcome("ok", <<>>), <<>>, FALSE)
        /\ loops[l].batch[2].id \in bus
        /\ DOMAIN loops[l].session.rows = {loops[l].batch[1].id}
        /\ loops[l].batch[2].id \in Unpublished(outbox)

\* ============================================== claims on shared per-key maps
\* Another call of the same request, which arrived less than the TTL before
\* now, is suspended in next_handler().
InFlight(request) ==
    \E d \in 1..MaxTasks :
        /\ tasks[d].pc = "next"
        /\ tasks[d].request = request
        /\ time - tasks[d].current_time < Behavior.cache_ttl

\* C36: concurrent calls with one cache_key that all start while the cache
\* has no valid entry for it invoke next() at most once within one TTL
\* window and all return the same value: a call that arrives while another
\* call of the key is in flight does not invoke next(), and a call that
\* returns while the cache holds a valid entry of the key returns the stored
\* value.
C36_SingleFlight ==
    [][\A k \in Keys :
          /\ Behavior.kind = "Caching"
          /\ Behavior.enable_caching
          /\ last'.op \in {"handle", "resume"}
          /\ last'.request.cache_key = k
          => /\ (last'.op = "handle" /\ InFlight(last'.request)) => call_count' = call_count
             /\ (/\ last'.op = "resume"
                 /\ last'.given.t = "ret"
                 /\ k \in DOMAIN cache
                 /\ tasks[last'.task].current_time - cache[k].cached_time
                        < Behavior.cache_ttl)
                => last'.sig = Ret(cache[k].cached_result)]_vars

\* What a call of request would get at clock value t from the breaker as the
\* step leaves it.
Probe(request, t) ==
    CircuitBreakerHandle(Behavior, failure_counts', last_failure_times', request, t)

C39_TypeIsolation ==
    [][\A k \in Keys :
          /\ Behavior.kind = "Caching"
          /\ Behavior.enable_caching
          /\ last'.op = "handle"
          /\ last'.request.cache_key = k
          /\ last'.sig.t = "ret"
          => cached_for[k] = last'.request.rtype]_vars

\* ================================================ claims on the cached query
\* C34: GetUnpublishedEventsQuery sent through send_query on a mediator with
\* CachingBehavior never returns a row whose published_at was non-null when
\* the query was issued.
C34_NoPublishedRows ==
    [][(reply'.op = "GetUnpublishedEventsQuery" /\ reply'.error = "") =>
          \A i \in 1..Len(reply'.value) :
              reply'.value[i].id \in DOMAIN outbox =>
                  outbox[reply'.value[i].id].published_at = NoTime]_vars


\* ------------------------------------------------- save command and behaviours
\* The nested dispatch of the save command reached the save handler.
SaveHandled == Happened(1, 0, "handle")

\* C38: the save command that OutboxBehavior dispatches through the mediator
\* reaches the save handler whatever other behaviours are registered: an
\* authenticated command with k >= 1 domain events that completes
\* successfully (the outbox wired, the save handlers registered, the
\* serialisation not failing) has its k events persisted.
C38_SaveReachesHandler ==
    (Finished /\ outcome.t = "ret" /\ call.req.domain_events >= 1 /\ PersistenceWorks)
        => /\ SaveHandled
           /\ Rows = ExpectedRows(call.req.domain_events, call.req.correlation_id)

\* ------------------------------------------------------- context attachment
\* with_context was called on the request object.
Attached == attached.sig.t # "none"

\* The attributes of the request that are not context fields are as before.
OwnAttributesKept ==
    \A name \in DOMAIN attached.original \ DOMAIN RequestContext :
        /\ name \in DOMAIN attached.request
        /\ attached.request[name] = attached.original[name]

\* Every field of the context is an attribute of the request with the
\* context's value.
CarriesContext ==
    \A name \in DOMAIN attached.context :
        /\ hasattr(attached.request, name)
        /\ attached.request[name] = attached.context[name]

\* C40: context attachment round-trips: for every request r and
\* RequestContext c, with_context(r, c) returns r,
\* get_context_from_request of it equals c field by field, and the
\* attributes of r that are not context fields are unchanged.
C40_RoundTrip ==
    Attached =>
        /\ attached.sig.t = "ret"
        /\ CarriesContext
        /\ attached.op = "get_context_from_request" =>
              attached.extracted = attached.context
        /\ OwnAttributesKept

\* ------------------------------------------------------ concurrent dispatches
\* The handler given in the last of the first n register_* calls that wrote
\* rtype into the registry of the entry point api, if there is one.
LastRegistered(api, rtype, n) ==
    LET hits == {k \in 1..n : /\ dispatches.registered[k].api = api
                              /\ dispatches.registered[k].rtype = rtype}
    IN  IF hits = {} THEN NoHandler
        ELSE dispatches.registered[CHOOSE k \in hits : \A j \in hits : j <= k].handler

\* The entries that call c left in the logs of the handlers.
HandledFor(c) ==
    {k \in 1..Len(dispatches.handled) : dispatches.handled[k].call = c}

\* Call c got as far as its handler.
ReachedHandler(c) ==
    \E p \in 1..Len(dispatches.calls[c].frame.trace) :
        /\ dispatches.calls[c].frame.trace[p].depth = 0
        /\ dispatches.calls[c].frame.trace[p].ev = "handle"

\* C31: each registry holds one handler per request type and registration is
\* last-write-wins: after any sequence of register_* calls the registry of an
\* entry point binds a type to the handler registered for it last there, and
\* a send_* invokes only that handler, never one registered earlier or in
\* another registry.
C31_LastWriteWins ==
    /\ \A api \in Apis :
          IF LastRegistered(api, "Cmd", Len(dispatches.registered)) = NoHandler
          THEN "Cmd" \notin DOMAIN Registry(api)
          ELSE /\ "Cmd" \in DOMAIN Registry(api)
               /\ Registry(api)["Cmd"] =
                      LastRegistered(api, "Cmd", Len(dispatches.registered))
    /\ \A c \in 1..MaxTasks :
          dispatches.calls[c].pc # "idle" =>
              /\ dispatches.calls[c].handler =
                     LastRegistered(dispatches.calls[c].api,
                                    dispatches.calls[c].request.rtype,
                                    dispatches.calls[c].epoch)
              /\ \A k \in HandledFor(c) :
                     /\ dispatches.calls[c].handler # NoHandler
                     /\ dispatches.handled[k].handler = dispatches.calls[c].handler.id
              /\ dispatches.calls[c].handler # NoHandler =>
                     Cardinality(HandledFor(c)) = 1

\* A type was registered twice in one registry with different handlers and
\* a send_* made afterwards was served by the second.
C31_Witness ==
    /\ Len(dispatches.registered) = 2
    /\ dispatches.registered[1].api = dispatches.registered[2].api
    /\ dispatches.registered[1].handler # dispatches.registered[2].handler
    /\ \E c \in 1..MaxTasks :
          /\ dispatches.calls[c].pc = "done"
          /\ dispatches.calls[c].epoch = 2
          /\ dispatches.calls[c].api = dispatches.registered[2].api
          /\ dispatches.calls[c].outcome.t = "ret"
          /\ \E k \in HandledFor(c) :
                dispatches.handled[k].handler = dispatches.registered[2].handler.id

\* Two finished calls of the same entry point with the same request whose
\* handlers did the same, one a coroutine function and one a plain function.
SyncAsyncPair(a, b) ==
    /\ dispatches.calls[a].pc = "done"
    /\ dispatches.calls[b].pc = "done"
    /\ dispatches.calls[a].api = dispatches.calls[b].api
    /\ dispatches.calls[a].request = dispatches.calls[b].request
    /\ dispatches.calls[a].given = dispatches.calls[b].given
    /\ dispatches.calls[a].handler.is_async
    /\ dispatches.calls[b].handler # NoHandler
    /\ ~dispatches.calls[b].handler.is_async

\* C32: dispatch is uniform over synchronous and asynchronous handlers: for
\* the same request and the same behaviours, a handler whose handle is a
\* plain function and one whose handle is a coroutine are each invoked once
\* and give the same returned value, the same behaviour trace and the same
\* error wrapping.
C32_SyncAsyncUniform ==
    \A a, b \in 1..MaxTasks :
        SyncAsyncPair(a, b) =>
            /\ Cardinality(HandledFor(a)) = 1
            /\ Cardinality(HandledFor(b)) = 1
            /\ dispatches.calls[a].outcome = dispatches.calls[b].outcome
            /\ dispatches.calls[a].frame = dispatches.calls[b].frame

\* A coroutine handler and a plain handler returned a response for the same
\* request through a pipeline of two behaviours.
C32_Witness ==
    \E a, b \in 1..MaxTasks :
        /\ SyncAsyncPair(a, b)
        /\ Len(pipeline_behaviors) = 2
        /\ dispatches.calls[a].api = "send_command_with_response"
        /\ dispatches.calls[b].outcome = Ret("Response: v1")

\* What call d has in its frame when nothing else runs on the mediator: r is
\* the frame of its descent.
AloneFrom(d, r) ==
    IF r.sig.t # "call" \/ d.pc = "awaiting" THEN r
    ELSE Unwound(d.api, d.request, r, d.given)

CalledAlone(d) ==
    IF d.handler = NoHandler
    THEN Signal(NewFrame(FALSE), Raise(HandlerNotFoundException(d.request.rtype)))
    ELSE AloneFrom(d, Started(d.api, d.request, Down(1, d.request, 0, NewFrame(FALSE))))

\* C33: concurrent dispatches on one mediator do not interfere: each request
\* is delivered to its handler exactly once, every behaviour of a call's
\* chain sees that call's request (the call's steps and session are those of
\* the same call made alone), and each caller gets the result made for its
\* own request.
C33_NoInterference ==
    \A c \in 1..MaxTasks :
        dispatches.calls[c].pc # "idle" =>
            /\ dispatches.calls[c].frame = CalledAlone(dispatches.calls[c])
            /\ dispatches.calls[c].pc = "done" =>
                  dispatches.calls[c].outcome = dispatches.calls[c].frame.sig
            /\ \A k \in HandledFor(c) :
                  dispatches.handled[k].request = dispatches.calls[c].request
            /\ Cardinality(HandledFor(c)) = IF ReachedHandler(c) THEN 1 ELSE 0
            /\ (dispatches.calls[c].outcome.t = "ret"
                  /\ dispatches.calls[c].api # "send_command") =>
                  dispatches.calls[c].outcome.val =
                      "Response: " \o dispatches.calls[c].request.value

\* The second call, with another request, was sent and has finished while
\* the first is suspended in its handler; then the first finished too, each
\* with the response for its own request.
C33_Witness ==
    /\ Len(pipeline_behaviors) = 2
    /\ dispatches.finished = <<2, 1>>
    /\ dispatches.calls[1].pc = "done"
    /\ dispatches.calls[2].pc = "done"
    /\ dispatches.calls[1].handler.is_async
    /\ dispatches.calls[1].request.value = "v1"
    /\ dispatches.calls[2].request.value = "v2"
    /\ dispatches.calls[1].outcome = Ret("Response: v1")
    /\ dispatches.calls[2].outcome = Ret("Response: v2")
    /\ dispatches.calls[1].frame.uow.commits = 1
    /\ dispatches.calls[2].frame.uow.commits = 0
====
